---- MODULE Spec2Model ----
(***************************************************************************)
(* CoraService (src/unnamed/part_000, the service with detail enrichment;   *)
(* src/src/servicos/servicoCora.js is its earlier version and shares the    *)
(* token cache and the page loop) and the controller that calls it          *)
(* (src/src/controladores/controladorBoletos.js).                           *)
(*                                                                         *)
(* One step of the model is one turn of the Node event loop: the            *)
(* continuation that an I/O completion or a timer resumes, together with    *)
(* every synchronous statement and every promise continuation (microtask)   *)
(* that runs before the next I/O completion is delivered.  A cache hit in   *)
(* createHttpsAgent or getAccessToken suspends only on a microtask, so it   *)
(* belongs to the step that made the call.                                  *)
(***************************************************************************)
EXTENDS Integers, Sequences, FiniteSets, TLC

----------------------------------------------------------------------------
(* Bounds.  Three of them stand for constants of the source that are too   *)
(* large to enumerate; the model keeps their role and scales their value.  *)

\* 50 * 60 * 1000 ms in the source (part_000:166), in clock ticks here.
TOKEN_TTL == 2
\* 200 in the source (part_000:411).
perPage == 2
\* 20 in the source (part_000:456).
BATCH_SIZE == 2
\* Number of clock ticks a behaviour may contain.
MaxNow == 3
\* Number of invoices the provider holds for one payer.
MaxItems == 3
\* Largest totalItems the provider reports in a list response.
MaxTotal == 3
\* Calendar days the classification instant is drawn from: 0..MaxDay.
MaxDay == 2
\* Number of further lookups the controller serves after the first one.
MaxLookups == 1
\* Number of invoices the provider holds for each of two payers looked up
\* concurrently.
MaxPairItems == 1
\* Days from the Unix epoch (1970-01-01) to day 0 of the calendar.
EpochDaysBefore == 2

----------------------------------------------------------------------------
(* Values *)

\* this.token = null (a JS falsy value); real tokens are 1, 2, ...
NoToken == 0
\* this.tokenExpiry = null
NoExpiry == -1
\* this.httpsAgent = null; agents are numbered 1, 2, ... in order of construction
NoAgent == 0
\* res.status(...) not called yet
NoStatus == 0
\* due_date: null in a formatted invoice (the calendar days are 0, 1, ...)
NoDueDate == -1

\* No helper is being called on its own.
NoCall == [op |-> "none"]

\* The concurrent invocations of consultarBoletosPorCpf.
Runs == {"r1", "r2"}
\* The payer document each invocation is called with.
Cpf(r) == IF r = "r1" THEN "cpf1" ELSE "cpf2"

Min(a, b) == IF a < b THEN a ELSE b

Days == 0..MaxDay

\* Instants are hours since midnight UTC of day 0.  The hours of the day at which a
\* classification is observed: the first and the last hour of a UTC day.
ClockHours == {0, 23}

\* The instants new Date() may return at the classification.
Instants == {d * 24 + h : d \in Days, h \in ClockHours}

\* The UTC offsets of the process clock, in hours (TZ of the process):
\* west of Greenwich, UTC, east of Greenwich.
TimeZones == {-3, 0, 2}

\* Strings the code compares are sequences of characters.
OPEN == <<"O", "P", "E", "N">>
LATE == <<"L", "A", "T", "E">>
CANCELLED == <<"C", "A", "N", "C", "E", "L", "L", "E", "D">>
PAID == <<"P", "A", "I", "D">>

VARIABLES
    now,            \* the process clock (Date.now()), in ticks
    httpsAgent,     \* this.httpsAgent
    agentsCreated,  \* number of https.Agent objects constructed so far
    token,          \* this.token
    tokenExpiry,    \* this.tokenExpiry
    tokenPosts,     \* POST /token requests sent so far
    tokenResps,     \* POST /token requests answered so far (success or failure)
    lookups,        \* lookups served after the first one
    call,           \* a helper of the service called on its own: its arguments
                    \* and, once it has returned, what it returned (NoCall
                    \* while the service is looked at through its lookups)
    tz,             \* UTC offset of the process clock, in hours (0 under Spec:
                    \* a process whose clock is UTC)
    run             \* per invocation: the locals of consultarBoletosPorCpf,
                    \* the controller's response, and what it sent on the wire

vars == <<now, httpsAgent, agentsCreated, token, tokenExpiry, tokenPosts,
          tokenResps, run, lookups, tz, call>>

service == <<httpsAgent, agentsCreated, token, tokenExpiry>>

----------------------------------------------------------------------------
(* The provider *)

\* The k-th summary the list endpoint returns for a payer.  The code reads
\* only its id (part_000:464).
Summary(cpf, k) == [id |-> <<cpf, k>>]

\* The items of a list page holding n summaries, the first `offset` summaries
\* of the payer having been delivered by the earlier pages.
ProviderPage(cpf, offset, n) == [k \in 1..n |-> Summary(cpf, offset + k)]

\* Provider data: status and due day of the invoice with a given id.
ProviderStatus(id) ==
    CASE id[2] % 4 = 1 -> OPEN
      [] id[2] % 4 = 2 -> LATE
      [] id[2] % 4 = 3 -> CANCELLED
      [] OTHER -> <<"o", "p", "e", "n">>

ProviderDueDay(id) == id[2] % 3

\* GET /v2/invoices/{id}: the detail payload (response.data).
DetailPayload(id) ==
    [id |-> id, status |-> ProviderStatus(id), due_date |-> ProviderDueDay(id)]

----------------------------------------------------------------------------
(* Pure functions of the service *)

\* The letters String.prototype.toUpperCase maps, and what it maps them to.
LowerCase ==
    <<"a", "b", "c", "d", "e", "f", "g", "h", "i", "j", "k", "l", "m",
      "n", "o", "p", "q", "r", "s", "t", "u", "v", "w", "x", "y", "z">>
UpperCase ==
    <<"A", "B", "C", "D", "E", "F", "G", "H", "I", "J", "K", "L", "M",
      "N", "O", "P", "Q", "R", "S", "T", "U", "V", "W", "X", "Y", "Z">>

UpperOf ==
    [c \in {LowerCase[j] : j \in DOMAIN LowerCase} |->
        UpperCase[CHOOSE j \in DOMAIN LowerCase : LowerCase[j] = c]]

\* Mutant of ToUpperCase: the status is compared as it is written.
ToUpperCase_AsIs(s) == s

\* String(boleto.status).toUpperCase(): every lower-case letter becomes its
\* upper-case letter, every other character is kept.
ToUpperCase(s) ==
    [k \in 1..Len(s) |-> IF s[k] \in DOMAIN UpperOf THEN UpperOf[s[k]] ELSE s[k]]

\* _formatInvoiceForFront: the fields the classification and the controller
\* read (id, status, due_date).  A payload without a due date has NoDueDate,
\* and payment_terms.due_date || due_date || null is then null: NoDueDate.
FormatInvoiceForFront(details) ==
    [id |-> details.id, status |-> details.status, due_date |-> details.due_date]

\* The filter of boletosAtivos.
IsActive(boleto) ==
    /\ ToUpperCase(boleto.status) = OPEN \/ ToUpperCase(boleto.status) = LATE
    /\ ToUpperCase(boleto.status) # CANCELLED

\* formattedAll.filter(...)
RECURSIVE Filter(_)
Filter(s) ==
    IF s = <<>> THEN <<>>
    ELSE IF IsActive(Head(s)) THEN <<Head(s)>> \o Filter(Tail(s))
    ELSE Filter(Tail(s))

\* Mutant of ParseDate: an absent due date is later than every day of the
\* calendar.
ParseDate_NullLast(due_date) ==
    IF due_date = NoDueDate THEN (MaxDay + 1) * 24 ELSE due_date * 24

\* new Date(due_date) for a date-only string "YYYY-MM-DD" (the day number
\* due_date here): midnight UTC of that day; new Date(null) is the Unix
\* epoch.
ParseDate(due_date) ==
    IF due_date = NoDueDate THEN -(EpochDaysBefore * 24) ELSE due_date * 24

\* date.setHours(0, 0, 0, 0): midnight, in the process's local time, of the
\* local day the instant t falls in.
SetHoursZero(t) == ((t + tz) \div 24) * 24 - tz

\* const dataVencimento = new Date(boleto.due_date);
\* dataVencimento.setHours(0, 0, 0, 0);
DataVencimento(boleto) == SetHoursZero(ParseDate(boleto.due_date))

\* Array.prototype.sort with the comparator
\* new Date(a.due_date) - new Date(b.due_date): a stable sort, ascending by
\* due date.
RECURSIVE InsertByDueDate(_, _)
InsertByDueDate(x, s) ==
    IF s = <<>> THEN <<x>>
    ELSE IF ParseDate(x.due_date) < ParseDate(Head(s).due_date) THEN <<x>> \o s
    ELSE <<Head(s)>> \o InsertByDueDate(x, Tail(s))

\* Mutant of SortByDueDate: the list is left in the order of the input.
SortByDueDate_AsIs(s) == s

RECURSIVE SortByDueDate(_)
SortByDueDate(s) ==
    IF s = <<>> THEN <<>>
    ELSE InsertByDueDate(s[Len(s)], SortByDueDate(SubSeq(s, 1, Len(s) - 1)))

RECURSIVE Atrasados(_, _)
Atrasados(s, hoje) ==
    IF s = <<>> THEN <<>>
    ELSE IF DataVencimento(Head(s)) < hoje
         THEN <<Head(s)>> \o Atrasados(Tail(s), hoje)
         ELSE Atrasados(Tail(s), hoje)

RECURSIVE FuturosOuHoje(_, _)
FuturosOuHoje(s, hoje) ==
    IF s = <<>> THEN <<>>
    ELSE IF DataVencimento(Head(s)) < hoje
         THEN FuturosOuHoje(Tail(s), hoje)
         ELSE <<Head(s)>> \o FuturosOuHoje(Tail(s), hoje)

\* Mutant of Classify: no fallback to the first overdue invoice.
Classify_NoFallback(formattedAll, agora) ==
    LET hoje == SetHoursZero(agora)
        boletosAtivos == Filter(formattedAll)
        boletosAtrasados == SortByDueDate(Atrasados(boletosAtivos, hoje))
        boletosFuturosOuHoje == SortByDueDate(FuturosOuHoje(boletosAtivos, hoje))
    IN  [boletosAtrasados |-> boletosAtrasados,
         proximoBoletoAVencer |->
            IF Len(boletosFuturosOuHoje) > 0 THEN <<boletosFuturosOuHoje[1]>>
            ELSE <<>>]

\* The separation and ordering at the end of consultarBoletosPorCpf, agora
\* being the instant new Date() returns.  The absent proximoBoletoAVencer
\* (null) is the empty sequence, a present one a sequence of one record.
Classify(formattedAll, agora) ==
    LET hoje == SetHoursZero(agora)
        boletosAtivos == Filter(formattedAll)
        boletosAtrasados == SortByDueDate(Atrasados(boletosAtivos, hoje))
        boletosFuturosOuHoje == SortByDueDate(FuturosOuHoje(boletosAtivos, hoje))
    IN  [boletosAtrasados |-> boletosAtrasados,
         proximoBoletoAVencer |->
            IF Len(boletosFuturosOuHoje) > 0 THEN <<boletosFuturosOuHoje[1]>>
            ELSE IF Len(boletosAtrasados) > 0 THEN <<boletosAtrasados[1]>>
            ELSE <<>>]

\* Mutant of ControllerStatus: 'not found' whenever the overdue list is empty.
ControllerStatus_EmptyOverdue(result) ==
    IF Len(result.boletosAtrasados) = 0 THEN 404 ELSE 200

\* The controller's answer to a result the service returned.
ControllerStatus(result) ==
    IF Len(result.boletosAtrasados) = 0 /\ result.proximoBoletoAVencer = <<>>
    THEN 404 ELSE 200

\* The labels the controller gives.
ATRASADO == <<"A", "T", "R", "A", "S", "A", "D", "O">>
A_VENCER == <<"A", " ", "V", "E", "N", "C", "E", "R">>

\* The comparator of the controller's sort: negative when a goes first.
CompareParaExibir(a, b) ==
    IF a.status = ATRASADO /\ b.status # ATRASADO THEN -1
    ELSE IF a.status # ATRASADO /\ b.status = ATRASADO THEN 1
    ELSE ParseDate(a.due_date) - ParseDate(b.due_date)

\* boletosParaExibir.sort(...): a stable sort.
RECURSIVE InsertParaExibir(_, _)
InsertParaExibir(x, s) ==
    IF s = <<>> THEN <<x>>
    ELSE IF CompareParaExibir(x, Head(s)) < 0 THEN <<x>> \o s
    ELSE <<Head(s)>> \o InsertParaExibir(x, Tail(s))

RECURSIVE SortParaExibir(_)
SortParaExibir(s) ==
    IF s = <<>> THEN <<>>
    ELSE InsertParaExibir(s[Len(s)], SortParaExibir(SubSeq(s, 1, Len(s) - 1)))

\* boletosParaExibir.some(b => b.id === proximoBoletoAVencer.id)
IsDuplicate(boletosParaExibir, proximo) ==
    \E k \in DOMAIN boletosParaExibir : boletosParaExibir[k].id = proximo.id

\* Mutant of BoletosParaExibir: proximoBoletoAVencer is pushed without the
\* test for a duplicate.
BoletosParaExibir_NoDuplicateTest(result) ==
    LET atrasados ==
            [k \in DOMAIN result.boletosAtrasados |->
                [result.boletosAtrasados[k] EXCEPT !.status = ATRASADO]]
        proximo == result.proximoBoletoAVencer
    IN  SortParaExibir(
            IF proximo # <<>>
            THEN Append(atrasados, [proximo[1] EXCEPT !.status = A_VENCER])
            ELSE atrasados)

\* The list of the 200 response: the overdue invoices relabelled, then
\* proximoBoletoAVencer relabelled unless its id is already in the list,
\* sorted.
BoletosParaExibir(result) ==
    LET atrasados ==
            [k \in DOMAIN result.boletosAtrasados |->
                [result.boletosAtrasados[k] EXCEPT !.status = ATRASADO]]
        proximo == result.proximoBoletoAVencer
    IN  SortParaExibir(
            IF proximo # <<>> /\ ~IsDuplicate(atrasados, proximo[1])
            THEN Append(atrasados, [proximo[1] EXCEPT !.status = A_VENCER])
            ELSE atrasados)

\* res.status(200).json({ boletos }): <<the list>>; <<>> with a 404.
ControllerBoletos(result) ==
    IF ControllerStatus(result) = 200 THEN <<BoletosParaExibir(result)>> ELSE <<>>

\* Mutant of TokenValid: the cached token is given up one tick early.
TokenValid_ExpiresEarly ==
    token # NoToken /\ tokenExpiry # NoExpiry /\ now + 1 < tokenExpiry

\* getAccessToken's cache test.
TokenValid ==
    token # NoToken /\ tokenExpiry # NoExpiry /\ now < tokenExpiry

\* Mutant of NewExpiry: the provider's nominal lifetime, without the margin.
NewExpiry_NoMargin(t) == t + TOKEN_TTL + 1

\* new Date(Date.now() + 50 * 60 * 1000)
NewExpiry(t) == t + TOKEN_TTL

\* Mutant of NewTotalItems: the loop expects one item more than reported.
NewTotalItems_OneMore(total, n) == IF total # 0 THEN total + 1 ELSE n

\* totalItems = response.data.totalItems || (items ? items.length : totalItems);
\* an absent total is 0 and items is always an array here.
NewTotalItems(total, n) == IF total # 0 THEN total ELSE n

\* Mutant of ContinuePaging: one more page when the count equals the total.
ContinuePaging_Inclusive(totalItemsProcessed, totalItems) ==
    totalItemsProcessed <= totalItems

\* while (totalItemsProcessed < totalItems)
ContinuePaging(totalItemsProcessed, totalItems) == totalItemsProcessed < totalItems

\* Mutant of BatchOf: the slice ends one element early.
BatchOf_OneShort(allBoletos, i) ==
    SubSeq(allBoletos, i + 1, Min(i + BATCH_SIZE, Len(allBoletos)) - 1)

\* allBoletos.slice(i, i + BATCH_SIZE)
BatchOf(allBoletos, i) ==
    SubSeq(allBoletos, i + 1, Min(i + BATCH_SIZE, Len(allBoletos)))

\* Mutant of AllSettled: the batch is over as soon as one fetch has settled.
AllSettled_Any(tasks) == \E k \in DOMAIN tasks : tasks[k].st \in {"ok", "fail"}

\* Promise.all(promises) resolves: every promise of the batch has settled
\* (none can reject, each carries its own .catch).
AllSettled(tasks) == \A k \in DOMAIN tasks : tasks[k].st \in {"ok", "fail"}

\* Mutant of CollectResults: the loop stops at the first result without
\* details.
RECURSIVE CollectResults_StopAtFailure(_)
CollectResults_StopAtFailure(tasks) ==
    IF tasks = <<>> THEN <<>>
    ELSE IF Head(tasks).details # <<>>
         THEN <<FormatInvoiceForFront(Head(tasks).details[1])>>
                  \o CollectResults_StopAtFailure(Tail(tasks))
         ELSE <<>>

\* The loop over results: one formatted record per result with details, in
\* the order of the batch.
RECURSIVE CollectResults(_)
CollectResults(tasks) ==
    IF tasks = <<>> THEN <<>>
    ELSE IF Head(tasks).details # <<>>
         THEN <<FormatInvoiceForFront(Head(tasks).details[1])>>
                  \o CollectResults(Tail(tasks))
         ELSE CollectResults(Tail(tasks))

----------------------------------------------------------------------------
(* One invocation of consultarBoletosPorCpf, as a record of its locals.    *)
(* pc is the await the invocation is suspended at:                          *)
(*   "idle"        not called yet                                           *)
(*   "agent"       createHttpsAgent is loading the certificate and the key  *)
(*   "token"       POST /token is in flight (part_000:161)                  *)
(*   "page"        GET /v2/invoices is in flight (part_000:425)             *)
(*   "pageSleep"   the 100 ms pause after a page (part_000:450)             *)
(*   "batch"       Promise.all over the batch's detail fetches (:469)       *)
(*   "batchSleep"  the 150 ms pause after a batch (part_000:481)            *)
(*   "done"        returned {boletosAtrasados, proximoBoletoAVencer}        *)
(*   "threw"       the catch block rethrew                                  *)
(* A task of the batch is one consultarDetalhesBoleto call: st is           *)
(* "tokenReq" (its POST /token in flight), "get" (its GET in flight), "ok"  *)
(* or "fail" (settled).  httpsAgent and token are the constants of those    *)
(* names (part_000:417-418), boletos the list of the controller's 200       *)
(* response, hoje the local midnight the classification                     *)
(* compared with.  pageReqs, lastResp and fetches record what went over the *)
(* wire: the list requests sent, the last list response, and per summary    *)
(* the calls of consultarDetalhesBoleto, the GETs sent, whether the token   *)
(* request of the call failed, and how the call ended; error records which  *)
(* request of the main flow failed.                                         *)

InitRun ==
    [pc |-> "idle", httpsAgent |-> NoAgent, token |-> NoToken, page |-> 1, totalItemsProcessed |-> 0,
     totalItems |-> 0, allBoletos |-> <<>>, i |-> 0, tasks |-> <<>>,
     formattedAll |-> <<>>, result |-> <<>>, httpStatus |-> NoStatus,
     boletos |-> <<>>,
     error |-> "none", hoje |-> <<>>, pageReqs |-> <<>>, lastResp |-> <<>>, fetches |-> <<>>]

\* axios.get(.../v2/invoices, {headers: Bearer token, params: {page, ...}})
RequestPage(rec, bearer) ==
    [rec EXCEPT !.pc = "page",
                !.pageReqs = Append(@, [page |-> rec.page, bearer |-> bearer])]

\* const token = await this.getAccessToken(), then the first list request.
GotToken(rec, tok) == RequestPage([rec EXCEPT !.token = tok], tok)

\* Mutant of Finish: a run whose detail fetches all failed is escalated.
Finish_ThrowIfNoDetail(rec, agora) ==
    IF rec.formattedAll = <<>> /\ rec.allBoletos # <<>>
    THEN [rec EXCEPT !.pc = "threw", !.httpStatus = 500]
    ELSE LET result == Classify(rec.formattedAll, agora)
         IN  [rec EXCEPT !.pc = "done", !.result = <<result>>,
                         !.hoje = <<SetHoursZero(agora)>>,
                         !.httpStatus = ControllerStatus(result),
                         !.boletos = ControllerBoletos(result)]

\* The classification, the return and the controller's answer.
Finish(rec, agora) ==
    LET result == Classify(rec.formattedAll, agora)
    IN  [rec EXCEPT !.pc = "done", !.result = <<result>>,
                    !.hoje = <<SetHoursZero(agora)>>,
                    !.httpStatus = ControllerStatus(result),
                    !.boletos = ControllerBoletos(result)]

\* Mutant of Throw: the catch block returns what was accumulated so far.
Throw_ReturnsPartial(rec) == Finish(rec, 0)

\* The catch block of consultarBoletosPorCpf rethrows and the controller's
\* catch answers 500.
Throw(rec) == [rec EXCEPT !.pc = "threw", !.httpStatus = 500]

\* Mutant of StartTasks: a single-flight refresh, only the first call of the
\* batch sends POST /token and the others wait for its answer.
StartTasks_SingleFlight(batch, valid, tok) ==
    [k \in 1..Len(batch) |->
        [id |-> batch[k].id,
         st |-> IF valid THEN "get" ELSE IF k = 1 THEN "tokenReq" ELSE "tokenWait",
         bearer |-> IF valid THEN tok ELSE NoToken,
         details |-> <<>>]]

\* batch.map(it => this.consultarDetalhesBoleto(it.id)...): every call of the
\* batch runs createHttpsAgent (cached) and getAccessToken's cache test before
\* any response is delivered, so all of them see the same cache: with a valid
\* token each sends its GET, otherwise each sends its own POST /token.
StartTasks(batch, valid, tok) ==
    [k \in 1..Len(batch) |->
        [id |-> batch[k].id,
         st |-> IF valid THEN "get" ELSE "tokenReq",
         bearer |-> IF valid THEN tok ELSE NoToken,
         details |-> <<>>]]

NoFetches(n) ==
    [k \in 1..n |-> [calls |-> 0, gets |-> 0, authFailed |-> FALSE, outcome |-> "none"]]

\* The head of the for loop over the batches: the next batch is started, or
\* the loop is over and the result is classified and returned.
EnterBatch(rec, i, valid, tok, agora) ==
    IF i < Len(rec.allBoletos)
    THEN LET batch == BatchOf(rec.allBoletos, i)
             old == IF i = 0 THEN NoFetches(Len(rec.allBoletos)) ELSE rec.fetches
         IN  [rec EXCEPT
                !.pc = "batch", !.i = i,
                !.tasks = StartTasks(batch, valid, tok),
                !.fetches = [k \in DOMAIN old |->
                    IF k > i /\ k <= i + Len(batch)
                    THEN [old[k] EXCEPT !.calls = @ + 1,
                                        !.gets = IF valid THEN @ + 1 ELSE @,
                                        !.outcome = "pending"]
                    ELSE old[k]]]
    ELSE Finish([rec EXCEPT !.i = i], agora)

\* Mutant of Settle: each result is formatted and pushed as soon as its fetch
\* settles, in the order of completion.
Settle_InCompletionOrder(rec, tasks) ==
    LET k == CHOOSE j \in DOMAIN tasks : tasks[j] # rec.tasks[j]
        pushed == IF tasks[k].details # <<>>
                  THEN <<FormatInvoiceForFront(tasks[k].details[1])>>
                  ELSE <<>>
    IN  IF AllSettled(tasks)
        THEN [rec EXCEPT !.formattedAll = @ \o pushed,
                         !.tasks = <<>>, !.pc = "batchSleep"]
        ELSE [rec EXCEPT !.formattedAll = @ \o pushed, !.tasks = tasks]

\* A task settles: .then / .catch turn it into a result, and Promise.all
\* resolves with the last one; the results are then formatted and the pause
\* between batches begins.
Settle(rec, tasks) ==
    IF AllSettled(tasks)
    THEN [rec EXCEPT !.formattedAll = @ \o CollectResults(tasks),
                     !.tasks = <<>>, !.pc = "batchSleep"]
    ELSE [rec EXCEPT !.tasks = tasks]

\* POST /token requests the tasks of a record are waiting for.
PostsOf(rec) == Cardinality({k \in DOMAIN rec.tasks : rec.tasks[k].st = "tokenReq"})

----------------------------------------------------------------------------
(* Actions *)

Init ==
    /\ now = 0
    /\ httpsAgent = NoAgent
    /\ agentsCreated = 0
    /\ token = NoToken
    /\ tokenExpiry = NoExpiry
    /\ tokenPosts = 0
    /\ tokenResps = 0
    /\ run = [r \in Runs |-> InitRun]
    /\ lookups = 0
    /\ tz = 0
    /\ call = NoCall

\* Time passes.
Tick ==
    /\ now < MaxNow
    /\ now' = now + 1
    /\ UNCHANGED <<service, tokenPosts, tokenResps, run, lookups, tz, call>>

\* createHttpsAgent returned agent to consultarBoletosPorCpf (part_000:417),
\* which calls getAccessToken (part_000:418): a cache hit returns this.token
\* and the first list request follows; a miss sends POST /token
\* (createHttpsAgent inside it hits its cache).
CallGetAccessToken(r, agent) ==
    IF TokenValid
    THEN /\ run' = [run EXCEPT
                       ![r] = GotToken([run[r] EXCEPT !.httpsAgent = agent], token)]
         /\ tokenPosts' = tokenPosts
    ELSE /\ run' = [run EXCEPT ![r].pc = "token", ![r].httpsAgent = agent]
         /\ tokenPosts' = tokenPosts + 1

\* The enrichment loop is entered or continued; when it is over, new Date()
\* is read (agora) and the result is classified.
EnterBatchStep(r, rec, i) ==
    \E agora \in IF i < Len(rec.allBoletos) THEN {0} ELSE Instants :
        LET next == EnterBatch(rec, i, TokenValid, token, agora)
        IN  /\ run' = [run EXCEPT ![r] = next]
            /\ tokenPosts' = tokenPosts + PostsOf(next)

\* The controller calls consultarBoletosPorCpf; createHttpsAgent returns the
\* cached agent or starts loading the certificate and the key.
Start(r) ==
    /\ run[r].pc = "idle"
    /\ IF httpsAgent # NoAgent
       THEN CallGetAccessToken(r, httpsAgent)
       ELSE /\ run' = [run EXCEPT ![r].pc = "agent"]
            /\ tokenPosts' = tokenPosts
    /\ UNCHANGED <<now, service, tokenResps, lookups, tz, call>>

\* createHttpsAgent: the certificate and the key are loaded, the agent is
\* constructed and cached.
AgentCreated(r) ==
    /\ run[r].pc = "agent"
    /\ agentsCreated' = agentsCreated + 1
    /\ httpsAgent' = agentsCreated + 1
    /\ CallGetAccessToken(r, agentsCreated + 1)
    /\ UNCHANGED <<now, token, tokenExpiry, tokenResps, lookups, tz, call>>

\* _loadCertOrKeyContent throws: no file could be read and no content is in
\* the environment.
AgentFailed(r) ==
    /\ run[r].pc = "agent"
    /\ run' = [run EXCEPT ![r] = Throw([run[r] EXCEPT !.error = "agent"])]
    /\ UNCHANGED <<now, service, tokenPosts, tokenResps, lookups, tz, call>>

\* Mutant of TokenOk: the token is stored and the expiry is left as it was.
TokenOk_TokenOnly(r) ==
    /\ run[r].pc = "token"
    /\ tokenResps' = tokenResps + 1
    /\ token' = tokenResps + 1
    /\ run' = [run EXCEPT ![r] = GotToken(run[r], tokenResps + 1)]
    /\ UNCHANGED <<now, httpsAgent, agentsCreated, tokenExpiry, tokenPosts, lookups, tz, call>>

\* POST /token answers: the token and its expiry are stored and returned.
TokenOk(r) ==
    /\ run[r].pc = "token"
    /\ tokenResps' = tokenResps + 1
    /\ token' = tokenResps + 1
    /\ tokenExpiry' = NewExpiry(now)
    /\ run' = [run EXCEPT ![r] = GotToken(run[r], tokenResps + 1)]
    /\ UNCHANGED <<now, httpsAgent, agentsCreated, tokenPosts, lookups, tz, call>>

\* Mutant of TokenFail: the failure clears the cache.
TokenFail_ClearsCache(r) ==
    /\ run[r].pc = "token"
    /\ tokenResps' = tokenResps + 1
    /\ token' = NoToken
    /\ tokenExpiry' = NoExpiry
    /\ run' = [run EXCEPT ![r] = Throw([run[r] EXCEPT !.error = "token"])]
    /\ UNCHANGED <<now, httpsAgent, agentsCreated, tokenPosts, lookups, tz, call>>

\* POST /token fails: getAccessToken rethrows.
TokenFail(r) ==
    /\ run[r].pc = "token"
    /\ tokenResps' = tokenResps + 1
    /\ run' = [run EXCEPT ![r] = Throw([run[r] EXCEPT !.error = "token"])]
    /\ UNCHANGED <<now, service, tokenPosts, lookups, tz, call>>

\* Mutant of ListResponse: the accumulated list is a property of the service
\* object (this.allBoletos), so the items of a page reach the list of every
\* invocation.
ListResponse_SharedList(r, maxItems, totals) ==
    /\ run[r].pc = "page"
    /\ \E n \in 0..Min(perPage, maxItems - Len(run[r].allBoletos)),
          total \in totals :
          LET items == ProviderPage(Cpf(r), Len(run[r].allBoletos), n)
              rec == [run[r] EXCEPT !.totalItems = NewTotalItems(total, n),
                                    !.lastResp = <<[n |-> n, total |-> total]>>]
          IN  IF n = 0
              THEN EnterBatchStep(r, rec, 0)
              ELSE /\ run' = [q \in Runs |->
                         IF q = r
                         THEN [rec EXCEPT !.allBoletos = @ \o items,
                                          !.totalItemsProcessed = @ + n,
                                          !.page = @ + 1,
                                          !.pc = "pageSleep"]
                         ELSE [run[q] EXCEPT !.allBoletos = @ \o items]]
                   /\ tokenPosts' = tokenPosts
    /\ UNCHANGED <<now, service, tokenResps, lookups, tz, call>>

\* A list page answers with n items and a total (0: no totalItems), the
\* payer holding at most maxItems invoices and the total being one of totals.
ListResponse(r, maxItems, totals) ==
    /\ run[r].pc = "page"
    /\ \E n \in 0..Min(perPage, maxItems - Len(run[r].allBoletos)),
          total \in totals :
          LET items == ProviderPage(Cpf(r), Len(run[r].allBoletos), n)
              rec == [run[r] EXCEPT !.totalItems = NewTotalItems(total, n),
                                    !.lastResp = <<[n |-> n, total |-> total]>>]
          IN  IF n = 0
              THEN EnterBatchStep(r, rec, 0)
              ELSE /\ run' = [run EXCEPT ![r] =
                         [rec EXCEPT !.allBoletos = @ \o items,
                                     !.totalItemsProcessed = @ + n,
                                     !.page = @ + 1,
                                     !.pc = "pageSleep"]]
                   /\ tokenPosts' = tokenPosts
    /\ UNCHANGED <<now, service, tokenResps, lookups, tz, call>>

\* A list page answers.
PageOk(r) == ListResponse(r, MaxItems, 0..MaxTotal)

\* A list request fails.
PageFail(r) ==
    /\ run[r].pc = "page"
    /\ run' = [run EXCEPT ![r] = Throw([run[r] EXCEPT !.error = "list"])]
    /\ UNCHANGED <<now, service, tokenPosts, tokenResps, lookups, tz, call>>

\* The pause after a page is over: the loop condition is evaluated.
PageSleepDone(r) ==
    /\ run[r].pc = "pageSleep"
    /\ IF ContinuePaging(run[r].totalItemsProcessed, run[r].totalItems)
       THEN /\ run' = [run EXCEPT ![r] = RequestPage(run[r], run[r].token)]
            /\ tokenPosts' = tokenPosts
       ELSE EnterBatchStep(r, run[r], 0)
    /\ UNCHANGED <<now, service, tokenResps, lookups, tz, call>>

\* The POST /token of a detail fetch answers: the token is stored and the
\* fetch sends its GET with it.
DetailTokenOk(r, k) ==
    /\ run[r].pc = "batch"
    /\ k \in DOMAIN run[r].tasks
    /\ run[r].tasks[k].st = "tokenReq"
    /\ tokenResps' = tokenResps + 1
    /\ token' = tokenResps + 1
    /\ tokenExpiry' = NewExpiry(now)
    /\ run' = [run EXCEPT ![r].tasks[k].st = "get",
                          ![r].tasks[k].bearer = tokenResps + 1,
                          ![r].fetches[run[r].i + k].gets = @ + 1]
    /\ UNCHANGED <<now, httpsAgent, agentsCreated, tokenPosts, lookups, tz, call>>

\* The POST /token of a detail fetch fails: consultarDetalhesBoleto rethrows
\* and the fetch's .catch makes it a result without details.
DetailTokenFail(r, k) ==
    /\ run[r].pc = "batch"
    /\ k \in DOMAIN run[r].tasks
    /\ run[r].tasks[k].st = "tokenReq"
    /\ tokenResps' = tokenResps + 1
    /\ run' = [run EXCEPT ![r] =
          Settle([run[r] EXCEPT !.fetches[run[r].i + k].authFailed = TRUE,
                                !.fetches[run[r].i + k].outcome = "fail"],
                 [run[r].tasks EXCEPT ![k].st = "fail"])]
    /\ UNCHANGED <<now, service, tokenPosts, lookups, tz, call>>

\* The GET of a detail fetch answers with the detail payload.
DetailOk(r, k) ==
    /\ run[r].pc = "batch"
    /\ k \in DOMAIN run[r].tasks
    /\ run[r].tasks[k].st = "get"
    /\ run' = [run EXCEPT ![r] =
          Settle([run[r] EXCEPT !.fetches[run[r].i + k].outcome = "ok"],
                 [run[r].tasks EXCEPT
                     ![k].st = "ok",
                     ![k].details = <<DetailPayload(run[r].tasks[k].id)>>])]
    /\ UNCHANGED <<now, service, tokenPosts, tokenResps, lookups, tz, call>>

\* The GET of a detail fetch fails.
DetailFail(r, k) ==
    /\ run[r].pc = "batch"
    /\ k \in DOMAIN run[r].tasks
    /\ run[r].tasks[k].st = "get"
    /\ run' = [run EXCEPT ![r] =
          Settle([run[r] EXCEPT !.fetches[run[r].i + k].outcome = "fail"],
                 [run[r].tasks EXCEPT ![k].st = "fail"])]
    /\ UNCHANGED <<now, service, tokenPosts, tokenResps, lookups, tz, call>>

\* The pause after a batch is over: i += BATCH_SIZE and the loop goes on.
BatchSleepDone(r) ==
    /\ run[r].pc = "batchSleep"
    /\ EnterBatchStep(r, run[r], run[r].i + BATCH_SIZE)
    /\ UNCHANGED <<now, service, tokenResps, lookups, tz, call>>

\* The response was sent; the next request for the route arrives and the
\* controller will call consultarBoletosPorCpf afresh: new locals, same
\* service object.
NewLookup(r) ==
    /\ run[r].pc \in {"done", "threw"}
    /\ lookups < MaxLookups
    /\ lookups' = lookups + 1
    /\ run' = [run EXCEPT ![r] = InitRun]
    /\ UNCHANGED <<now, service, tokenPosts, tokenResps, tz, call>>

RunStep(r) ==
    \/ NewLookup(r)
    \/ Start(r)
    \/ AgentCreated(r)
    \/ AgentFailed(r)
    \/ TokenOk(r)
    \/ TokenFail(r)
    \/ PageOk(r)
    \/ PageFail(r)
    \/ PageSleepDone(r)
    \/ \E k \in 1..BATCH_SIZE :
          \/ DetailTokenOk(r, k)
          \/ DetailTokenFail(r, k)
          \/ DetailOk(r, k)
          \/ DetailFail(r, k)
    \/ BatchSleepDone(r)

\* One lookup at a time.
Next == Tick \/ RunStep("r1")

Spec == Init /\ [][Next]_vars

----------------------------------------------------------------------------
(* Two lookups in one process, from the call of consultarBoletosPorCpf to   *)
(* the answer to the first list request, which fails here: the calls of     *)
(* createHttpsAgent and getAccessToken of the main flow, interleaved in     *)
(* every way the event loop allows.                                         *)

StartStep(r) ==
    \/ NewLookup(r)
    \/ Start(r)
    \/ AgentCreated(r)
    \/ AgentFailed(r)
    \/ TokenOk(r)
    \/ TokenFail(r)
    \/ PageFail(r)

NextStart == Tick \/ \E r \in Runs : StartStep(r)

SpecStart == Init /\ [][NextStart]_vars

----------------------------------------------------------------------------
(* Two lookups of two payers in one process, each from its call to its      *)
(* answer, interleaved in every way the event loop allows; the provider     *)
(* holds at most MaxPairItems invoices for each payer and reports no total. *)

PagePairOk(r) == ListResponse(r, MaxPairItems, {0})

PairStep(r) ==
    \/ Start(r)
    \/ AgentCreated(r)
    \/ AgentFailed(r)
    \/ TokenOk(r)
    \/ TokenFail(r)
    \/ PagePairOk(r)
    \/ PageFail(r)
    \/ PageSleepDone(r)
    \/ \E k \in 1..BATCH_SIZE :
          \/ DetailTokenOk(r, k)
          \/ DetailTokenFail(r, k)
          \/ DetailOk(r, k)
          \/ DetailFail(r, k)
    \/ BatchSleepDone(r)

NextPair == Tick \/ \E r \in Runs : PairStep(r)

SpecPair == Init /\ [][NextPair]_vars

----------------------------------------------------------------------------
(* The page loop against a provider that reports the same total on every    *)
(* page of a lookup: the total of the first page is any of 1..MaxTotal, and *)
(* every later page repeats the total of the page before it.  The pages     *)
(* hold up to perPage items each, the last one possibly more than the total *)
(* leaves.  The lookup is followed from its start to its first batch.       *)

PageSameTotalOk(r) ==
    ListResponse(r, MaxTotal + perPage,
                 IF run[r].lastResp = <<>> THEN 1..MaxTotal
                 ELSE {run[r].lastResp[1].total})

NextPages ==
    \/ Tick
    \/ Start("r1")
    \/ AgentCreated("r1")
    \/ AgentFailed("r1")
    \/ TokenOk("r1")
    \/ TokenFail("r1")
    \/ PageSameTotalOk("r1")
    \/ PageFail("r1")
    \/ PageSleepDone("r1")

SpecPages == Init /\ [][NextPages]_vars

----------------------------------------------------------------------------
(* The classification on its own: a lookup whose detail fetches all         *)
(* succeeded, with any statuses and due dates in the payloads, in a process *)
(* of any of the time zones, classified at any of the instants.             *)

\* The statuses the payloads carry.
Statuses == {OPEN, <<"l", "a", "t", "e">>, CANCELLED, PAID}

\* Number of list requests that deliver n summaries.
PagesFor(n) == (n + perPage - 1) \div perPage

\* The locals of a lookup of n summaries at the pause after its last batch,
\* payload[k] being the <<status, due_date>> of the k-th detail payload.
AfterLastBatch(n, payload) ==
    [InitRun EXCEPT
        !.pc = "batchSleep", !.httpsAgent = 1, !.token = 1,
        !.page = PagesFor(n) + 1,
        !.totalItemsProcessed = n, !.totalItems = n,
        !.allBoletos = ProviderPage(Cpf("r1"), 0, n),
        !.i = BATCH_SIZE * ((n - 1) \div BATCH_SIZE),
        !.formattedAll =
            [k \in 1..n |->
                FormatInvoiceForFront([id |-> Summary(Cpf("r1"), k).id,
                                       status |-> payload[k][1],
                                       due_date |-> payload[k][2]])],
        !.pageReqs = [j \in 1..PagesFor(n) |-> [page |-> j, bearer |-> 1]],
        !.lastResp = <<[n |-> n - perPage * (PagesFor(n) - 1), total |-> n]>>,
        !.fetches = [k \in 1..n |->
            [calls |-> 1, gets |-> 1, authFailed |-> FALSE, outcome |-> "ok"]]]

InitClassify ==
    /\ now = 0
    /\ httpsAgent = 1
    /\ agentsCreated = 1
    /\ token = 1
    /\ tokenExpiry = NewExpiry(0)
    /\ tokenPosts = 1
    /\ tokenResps = 1
    /\ lookups = 0
    /\ tz \in TimeZones
    /\ call = NoCall
    /\ \E n \in 1..MaxItems : \E payload \in [1..n -> Statuses \X Days] :
          run = [r \in Runs |->
                    IF r = "r1" THEN AfterLastBatch(n, payload) ELSE InitRun]

NextClassify == BatchSleepDone("r1")

SpecClassify == InitClassify /\ [][NextClassify]_vars

----------------------------------------------------------------------------
(* The classification of invoices without a due date: as SpecClassify, the  *)
(* payloads being paid or active and carrying a due day or none.            *)

DueDates == Days \cup {NoDueDate}

InitNoDueDate ==
    /\ now = 0
    /\ httpsAgent = 1
    /\ agentsCreated = 1
    /\ token = 1
    /\ tokenExpiry = NewExpiry(0)
    /\ tokenPosts = 1
    /\ tokenResps = 1
    /\ lookups = 0
    /\ tz \in TimeZones
    /\ call = NoCall
    /\ \E n \in 1..MaxItems :
          \E payload \in [1..n -> {OPEN, LATE, PAID} \X DueDates] :
              run = [r \in Runs |->
                        IF r = "r1" THEN AfterLastBatch(n, payload) ELSE InitRun]

SpecNoDueDate == InitNoDueDate /\ [][NextClassify]_vars

----------------------------------------------------------------------------
(* What the claims speak of *)

\* The cache holds a token and the clock is strictly before its expiry.
CacheFresh == token # NoToken /\ tokenExpiry # NoExpiry /\ now < tokenExpiry

\* This step contains the getAccessToken call of consultarBoletosPorCpf.
MainCall(r) == run[r].pc \in {"idle", "agent"} /\ run'[r].pc \in {"token", "page"}

\* This step contains the getAccessToken calls of a batch's detail fetches.
BatchCall(r) == run[r].pc # "batch" /\ run'[r].pc = "batch"

\* POST /token requests sent and not yet answered.
TokenRequestsInFlight == tokenPosts - tokenResps

\* getAccessToken calls suspended at their POST /token: the call of a run's
\* main flow (position 0) and those of its detail fetches (position k).
TokenWaiters ==
    Cardinality({w \in Runs \X (0..BATCH_SIZE) :
        \/ w[2] = 0 /\ run[w[1]].pc = "token"
        \/ /\ w[2] \in DOMAIN run[w[1]].tasks
           /\ run[w[1]].tasks[w[2]].st = "tokenReq"})

\* The bearer of the last list request of a record.
LastBearer(rec) == rec.pageReqs[Len(rec.pageReqs)].bearer

\* C1: a getAccessToken call made while the cache holds a token and the
\* clock is strictly before the stored expiry returns the stored token (the
\* caller sends its request with it) and sends no POST /token.
C1_CacheHit ==
    [][\A r \in Runs :
          CacheFresh =>
            /\ tokenPosts' = tokenPosts
            /\ MainCall(r) =>
                  /\ run'[r].pc = "page"
                  /\ run'[r].token = token
                  /\ LastBearer(run'[r]) = token
            /\ BatchCall(r) =>
                  \A k \in DOMAIN run'[r].tasks :
                      /\ run'[r].tasks[k].st = "get"
                      /\ run'[r].tasks[k].bearer = token]_vars

\* C1 witness: a second lookup sent its first list request with the token the
\* first lookup stored, and only one POST /token was ever sent.
C1_Witness ==
    /\ lookups = 1
    /\ run["r1"].pc = "page"
    /\ tokenPosts = 1
    /\ run["r1"].token = token
    /\ now < tokenExpiry

\* C2: a getAccessToken call made with no token cached or at or after the
\* stored expiry sends exactly one POST /token (one per call, none when the
\* answer arrives); a successful answer stores the returned token with expiry
\* = clock at that moment + TOKEN_TTL, and the caller goes on with that token.
C2_CacheMiss ==
    [][\A r \in Runs :
          /\ (~CacheFresh /\ MainCall(r)) =>
                /\ run'[r].pc = "token"
                /\ tokenPosts' = tokenPosts + 1
          /\ (~CacheFresh /\ BatchCall(r)) =>
                /\ \A k \in DOMAIN run'[r].tasks : run'[r].tasks[k].st = "tokenReq"
                /\ tokenPosts' = tokenPosts + Len(run'[r].tasks)
          /\ tokenResps' # tokenResps =>
                /\ tokenResps' = tokenResps + 1
                /\ tokenPosts' = tokenPosts
          /\ (run[r].pc = "token" /\ run'[r].pc = "page") =>
                /\ token' = tokenResps'
                /\ tokenExpiry' = now + TOKEN_TTL
                /\ run'[r].token = token'
                /\ LastBearer(run'[r]) = token'
          /\ \A k \in DOMAIN run[r].tasks :
                (/\ run[r].tasks[k].st = "tokenReq"
                 /\ run'[r].pc = "batch"
                 /\ run'[r].tasks[k].st = "get") =>
                    /\ token' = tokenResps'
                    /\ tokenExpiry' = now + TOKEN_TTL
                    /\ run'[r].tasks[k].bearer = token']_vars

\* C2 witness: the cached token had expired when a lookup started; the lookup
\* sent a POST /token, stored the second token and sent its list request
\* with it.
C2_Witness ==
    /\ lookups = 1
    /\ run["r1"].pc = "page"
    /\ tokenPosts = 2
    /\ token = 2
    /\ run["r1"].token = 2
    /\ tokenExpiry = now + TOKEN_TTL
    /\ now >= TOKEN_TTL

\* C3: refresh is not single-flight: every getAccessToken call that misses
\* the cache has its own POST /token in flight, and the k calls of a batch
\* started on a stale cache send k requests.
C3_NotSingleFlight ==
    /\ [](TokenRequestsInFlight = TokenWaiters)
    /\ [][\A r \in Runs :
             (~CacheFresh /\ BatchCall(r)) =>
                /\ PostsOf(run'[r]) = Len(run'[r].tasks)
                /\ tokenPosts' - tokenResps' =
                      (tokenPosts - tokenResps) + Len(run'[r].tasks)]_vars

\* C3 witness: BATCH_SIZE > 1 token requests are in flight at once.
C3_Witness ==
    /\ TokenRequestsInFlight = BATCH_SIZE
    /\ PostsOf(run["r1"]) = BATCH_SIZE
    /\ BATCH_SIZE > 1

\* The list phase of a record is over without a failure.
ListPhaseOver(rec) == rec.pc \in {"batch", "batchSleep", "done"}

\* The number of the batch the k-th summary belongs to.
BatchNo(k) == (k - 1) \div BATCH_SIZE

\* The summaries whose detail fetch is started and not settled.
Pending(rec) == {k \in DOMAIN rec.fetches : rec.fetches[k].outcome = "pending"}

\* The record the provider's detail payload of a summary is formatted to.
FormattedOf(summary) ==
    [id |-> summary.id, status |-> ProviderStatus(summary.id),
     due_date |-> ProviderDueDay(summary.id)]

\* The formatted records of the first n summaries whose detail fetch
\* succeeded, in the order of the summary list.
RECURSIVE Enriched(_, _)
Enriched(rec, n) ==
    IF n = 0 THEN <<>>
    ELSE IF rec.fetches[n].outcome = "ok"
         THEN Append(Enriched(rec, n - 1), FormattedOf(rec.allBoletos[n]))
         ELSE Enriched(rec, n - 1)

\* The summaries whose batch is over.
Enrichable(rec) ==
    IF rec.pc = "batch" THEN rec.i
    ELSE Min(rec.i + BATCH_SIZE, Len(rec.allBoletos))

\* C4: when a list request fails the call throws (the controller answers
\* 500): no list or detail request follows, nothing of the accumulated pages
\* is returned and no classification result exists.
C4_ListFailureThrows ==
    /\ [](\A r \in Runs :
            run[r].error = "list" =>
              /\ run[r].pc = "threw"
              /\ run[r].result = <<>>
              /\ run[r].httpStatus = 500
              /\ run[r].fetches = <<>>
              /\ run[r].tasks = <<>>)
    /\ [][\A r \in Runs :
            /\ run'[r].error = "list" /\ run[r].error # "list" =>
                  run'[r].pageReqs = run[r].pageReqs
            /\ run[r].error = "list" =>
                  run'[r] = run[r] \/ run'[r] = InitRun]_vars

\* C4 witness: the second list request failed after a first page had been
\* accumulated.
C4_Witness ==
    /\ run["r1"].error = "list"
    /\ run["r1"].pc = "threw"
    /\ Len(run["r1"].allBoletos) > 0
    /\ Len(run["r1"].pageReqs) = 2

C6_EnrichedSet ==
    \A r \in Runs :
        /\ (ListPhaseOver(run[r]) /\ run[r].allBoletos # <<>>) =>
              run[r].formattedAll = Enriched(run[r], Enrichable(run[r]))
        /\ run[r].pc = "threw" => run[r].error \in {"agent", "token", "list"}

\* C6 witness: one of three detail fetches failed and the enriched set has
\* exactly two members.
C6_Witness ==
    /\ run["r1"].pc = "done"
    /\ Len(run["r1"].allBoletos) = 3
    /\ run["r1"].fetches[2].outcome = "fail"
    /\ Len(run["r1"].formattedAll) = 2
    /\ run["r1"].formattedAll[2].id = run["r1"].allBoletos[3].id

\* C7: when every detail fetch of a run fails the call returns an empty
\* overdue list and no nextDue, and the controller answers 404; the run does
\* not throw.
C7_AllDetailsFail ==
    \A r \in Runs :
        /\ (/\ run[r].pc = "done"
            /\ \A k \in 1..Len(run[r].allBoletos) :
                  run[r].fetches[k].outcome = "fail") =>
              /\ run[r].result =
                    <<[boletosAtrasados |-> <<>>, proximoBoletoAVencer |-> <<>>]>>
              /\ run[r].httpStatus = 404
        /\ (run[r].pc = "threw" /\ run[r].allBoletos # <<>>) =>
              run[r].error = "list"

\* C7 witness: all the detail fetches of a run over two batches failed.
C7_Witness ==
    /\ run["r1"].pc = "done"
    /\ Len(run["r1"].allBoletos) > BATCH_SIZE
    /\ \A k \in 1..Len(run["r1"].allBoletos) : run["r1"].fetches[k].outcome = "fail"
    /\ run["r1"].httpStatus = 404

\* C8: at most BATCH_SIZE detail fetches are in flight, all of one batch, and
\* a fetch of a later batch is started only when every fetch of the earlier
\* batches has settled.
C8_BatchesSequential ==
    \A r \in Runs :
        /\ Cardinality(Pending(run[r])) <= BATCH_SIZE
        /\ \A j, k \in Pending(run[r]) : BatchNo(j) = BatchNo(k)
        /\ \A j, k \in DOMAIN run[r].fetches :
              (BatchNo(j) < BatchNo(k) /\ run[r].fetches[k].calls > 0) =>
                  run[r].fetches[j].outcome \in {"ok", "fail"}

\* C8 witness: the second batch is in flight, the first one settled.
C8_Witness ==
    /\ run["r1"].pc = "batch"
    /\ run["r1"].i = BATCH_SIZE
    /\ Pending(run["r1"]) # {}
    /\ run["r1"].fetches[1].outcome = "fail"
    /\ run["r1"].fetches[BATCH_SIZE].outcome = "ok"

\* C9: the pages are requested in the order 1, 2, 3, ..., each once; when the
\* last response reported a total, a further page was requested only if that
\* response held items and the count of items received was below its total,
\* and the list phase is over only if it held none or the count had reached
\* its total.
C9_PageLoop ==
    \A r \in Runs :
        /\ \A j \in 1..Len(run[r].pageReqs) : run[r].pageReqs[j].page = j
        /\ (run[r].lastResp # <<>> /\ run[r].lastResp[1].total > 0) =>
              LET stop == \/ run[r].lastResp[1].n = 0
                          \/ Len(run[r].allBoletos) >= run[r].lastResp[1].total
              IN  /\ run[r].pc = "page" => ~stop
                  /\ ListPhaseOver(run[r]) => stop

\* C9 witness: the loop stopped after page 2, whose response brought the
\* count to the total it reported.
C9_Witness ==
    /\ ListPhaseOver(run["r1"])
    /\ Len(run["r1"].pageReqs) = 2
    /\ run["r1"].lastResp[1].n > 0
    /\ run["r1"].lastResp[1].total = Len(run["r1"].allBoletos)

\* C10 as stated: when the list responses carry no total, a full first page
\* is followed by a request for page 2 (the list phase is not over with one
\* request sent and a full page without total as the last response).
C10_Original ==
    \A r \in Runs :
        ~(/\ ListPhaseOver(run[r])
          /\ Len(run[r].pageReqs) = 1
          /\ run[r].lastResp = <<[n |-> perPage, total |-> 0]>>)

----------------------------------------------------------------------------
(* The classification *)

\* The local calendar day of the classification (hoje is its local midnight).
Today(rec) == (rec.hoje[1] + tz) \div 24

\* The status is the upper-case word in some letter case.
SameWord(status, word) ==
    /\ Len(status) = Len(word)
    /\ \A k \in 1..Len(word) :
          \/ status[k] = word[k]
          \/ \E j \in DOMAIN UpperCase :
                UpperCase[j] = word[k] /\ LowerCase[j] = status[k]

OpenOrLate(boleto) == SameWord(boleto.status, OPEN) \/ SameWord(boleto.status, LATE)

IdsOf(s) == {s[k].id : k \in DOMAIN s}

Overdue(rec) == rec.result[1].boletosAtrasados

NextDue(rec) == rec.result[1].proximoBoletoAVencer

\* The OPEN/LATE invoices of the enriched set due on or after the local day
\* of the classification.
DueFromToday(rec) ==
    {k \in DOMAIN rec.formattedAll :
        /\ OpenOrLate(rec.formattedAll[k])
        /\ rec.formattedAll[k].due_date >= Today(rec)}

\* C11 as stated: an OPEN/LATE invoice is in overdue exactly when its due day
\* is strictly before the local day of the classification, whatever the hour
\* of the classification and the UTC offset of the process.
C11_Original ==
    \A r \in Runs :
        run[r].pc = "done" =>
            \A k \in DOMAIN run[r].formattedAll :
                OpenOrLate(run[r].formattedAll[k]) =>
                    (run[r].formattedAll[k].id \in IdsOf(Overdue(run[r]))
                       <=> run[r].formattedAll[k].due_date < Today(run[r]))

C13_OverdueSorted ==
    \A r \in Runs :
        run[r].pc = "done" =>
            \A j, k \in DOMAIN Overdue(run[r]) :
                j < k => Overdue(run[r])[j].due_date <= Overdue(run[r])[k].due_date

\* C13 witness: three overdue invoices, two of them due the same day, which
\* the enriched set held in another order.
C13_Witness ==
    /\ run["r1"].pc = "done"
    /\ Len(Overdue(run["r1"])) = 3
    /\ Overdue(run["r1"])[1].due_date < Overdue(run["r1"])[2].due_date
    /\ Overdue(run["r1"])[2].due_date = Overdue(run["r1"])[3].due_date
    /\ run["r1"].formattedAll[1].due_date > run["r1"].formattedAll[2].due_date
    /\ Overdue(run["r1"])[2].id = run["r1"].formattedAll[1].id

\* C14 as stated: whenever an OPEN/LATE invoice is due on or after today,
\* nextDue is an OPEN/LATE invoice due on or after today with the least due
\* date among those, and it is not a member of overdue.
C14_Original ==
    \A r \in Runs :
        (run[r].pc = "done" /\ DueFromToday(run[r]) # {}) =>
            /\ NextDue(run[r]) # <<>>
            /\ NextDue(run[r])[1].id \notin IdsOf(Overdue(run[r]))
            /\ \E k \in DueFromToday(run[r]) :
                  /\ NextDue(run[r])[1] = run[r].formattedAll[k]
                  /\ \A j \in DueFromToday(run[r]) :
                        run[r].formattedAll[k].due_date
                            <= run[r].formattedAll[j].due_date

\* C15: when no OPEN/LATE invoice is due on or after today and overdue is not
\* empty, nextDue is the first element of overdue, the overdue invoice with
\* the earliest due date; nextDue is absent exactly when the enriched set
\* holds no OPEN/LATE invoice.
C15_FallbackToOverdue ==
    \A r \in Runs :
        run[r].pc = "done" =>
            /\ (DueFromToday(run[r]) = {} /\ Overdue(run[r]) # <<>>) =>
                  /\ NextDue(run[r]) = <<Overdue(run[r])[1]>>
                  /\ \A k \in DOMAIN Overdue(run[r]) :
                        Overdue(run[r])[1].due_date <= Overdue(run[r])[k].due_date
            /\ NextDue(run[r]) = <<>> <=>
                  \A k \in DOMAIN run[r].formattedAll :
                      ~OpenOrLate(run[r].formattedAll[k])

\* C15 witness: A OPEN due day 1, B late due day 0, C CANCELLED due day 1,
\* classified on day 2: overdue = [B, A] and nextDue = B.
C15_Witness ==
    /\ run["r1"].pc = "done"
    /\ Today(run["r1"]) = 2
    /\ Len(run["r1"].formattedAll) = 3
    /\ run["r1"].formattedAll[1].status = OPEN
    /\ run["r1"].formattedAll[1].due_date = 1
    /\ run["r1"].formattedAll[2].status = <<"l", "a", "t", "e">>
    /\ run["r1"].formattedAll[2].due_date = 0
    /\ run["r1"].formattedAll[3].status = CANCELLED
    /\ run["r1"].formattedAll[3].due_date = 1
    /\ Overdue(run["r1"]) = <<run["r1"].formattedAll[2], run["r1"].formattedAll[1]>>
    /\ NextDue(run["r1"]) = <<run["r1"].formattedAll[2]>>

----------------------------------------------------------------------------
(* Token failures and the token cache *)

\* The summaries of a record whose detail fetch failed at its token request.
AuthFailed(rec) == {k \in DOMAIN rec.fetches : rec.fetches[k].authFailed}

\* C16: when the token request of a getAccessToken call fails, the call
\* throws to its caller (the main flow ends in its catch block, a detail
\* fetch settles as failed without having sent its GET), no further POST
\* /token is sent by that step, and this.token and this.tokenExpiry are left
\* as they were.
C16_TokenFailureThrows ==
    [][\A r \in Runs :
          /\ (run[r].pc = "token" /\ run'[r].pc # "page" /\ run'[r] # run[r]) =>
                /\ run'[r].pc = "threw"
                /\ run'[r].error = "token"
                /\ run'[r].pageReqs = run[r].pageReqs
                /\ tokenResps' = tokenResps + 1
                /\ tokenPosts' = tokenPosts
                /\ token' = token
                /\ tokenExpiry' = tokenExpiry
          /\ \A k \in DOMAIN run[r].fetches \cap DOMAIN run'[r].fetches :
                (~run[r].fetches[k].authFailed /\ run'[r].fetches[k].authFailed) =>
                    /\ run'[r].fetches[k].outcome = "fail"
                    /\ run'[r].fetches[k].gets = 0
                    /\ run'[r].fetches[k].calls = 1
                    /\ tokenResps' = tokenResps + 1
                    /\ tokenPosts' = tokenPosts
                    /\ token' = token
                    /\ tokenExpiry' = tokenExpiry]_vars

\* C16 witness: the token request of a second lookup failed; the expired
\* token of the first lookup and its expiry are still in the cache, and two
\* token requests were sent in all.
C16_Witness ==
    /\ run["r1"].pc = "threw"
    /\ run["r1"].error = "token"
    /\ lookups = 1
    /\ token = 1
    /\ tokenExpiry = TOKEN_TTL
    /\ now >= tokenExpiry
    /\ tokenPosts = 2
    /\ tokenResps = 2

\* C17 as stated: a run in which the token request of a detail fetch failed
\* ends with an error, as soon as the fetches in flight with it have settled.
C17_Original ==
    \A r \in Runs :
        AuthFailed(run[r]) # {} => run[r].pc \in {"batch", "threw"}

\* C19: this.token and this.tokenExpiry are both unset or both set, and a
\* step that writes one of them writes both, from the token response that the
\* step delivers: the token of that response and the clock of that moment
\* plus TOKEN_TTL.
C19_TokenAndExpiryTogether ==
    /\ [](token = NoToken <=> tokenExpiry = NoExpiry)
    /\ [][(token' # token \/ tokenExpiry' # tokenExpiry) =>
              /\ tokenResps' = tokenResps + 1
              /\ token' = tokenResps'
              /\ tokenExpiry' = now + TOKEN_TTL]_vars

\* C19 witness: two detail fetches of one batch refreshed the token one after
\* the other; the cache holds the token and the expiry of the later response.
C19_Witness ==
    /\ run["r1"].pc = "batch"
    /\ \E j, k \in DOMAIN run["r1"].tasks :
          /\ run["r1"].tasks[j].bearer # NoToken
          /\ run["r1"].tasks[j].bearer # run["r1"].token
          /\ run["r1"].tasks[k].bearer = run["r1"].tasks[j].bearer + 1
          /\ token = run["r1"].tasks[k].bearer
    /\ tokenExpiry = now + TOKEN_TTL
    /\ now > 0

\* C20 as stated: every list request and every detail request is issued with
\* the token the cache holds at that moment, the clock being strictly before
\* the cached expiry.
C20_Original ==
    [][\A r \in Runs :
          /\ Len(run'[r].pageReqs) > Len(run[r].pageReqs) =>
                /\ LastBearer(run'[r]) = token'
                /\ now' < tokenExpiry'
          /\ \A k \in DOMAIN run'[r].tasks :
                (/\ run'[r].pc = "batch"
                 /\ run'[r].tasks[k].st = "get"
                 /\ ~(/\ run[r].pc = "batch"
                      /\ run[r].tasks[k].st = "get")) =>
                    /\ run'[r].tasks[k].bearer = token'
                    /\ now' < tokenExpiry']_vars

----------------------------------------------------------------------------
(* The transport *)

\* C18 as stated: at most one https.Agent is ever constructed and all the
\* callers of createHttpsAgent hold the same one.
C18_Original ==
    /\ agentsCreated <= 1
    /\ \A r, q \in Runs :
          (run[r].httpsAgent # NoAgent /\ run[q].httpsAgent # NoAgent) =>
              run[r].httpsAgent = run[q].httpsAgent

----------------------------------------------------------------------------
(* The order of the detail responses, and the controller's answer *)

\* The result the classification gives for the summaries whose detail fetch
\* succeeded, taken in the order of the summary list.
ResultInListOrder(rec) ==
    Classify(Enriched(rec, Len(rec.allBoletos)), rec.hoje[1])

\* C21: whatever the order in which the detail responses of a batch complete,
\* nothing of a batch enters the enriched set before the whole batch has
\* settled, and the result is the classification, at the day of the
\* classification, of the payloads of the successful fetches in the order of
\* the summary list.
C21_OrderIndependent ==
    \A r \in Runs :
        /\ run[r].pc = "batch" =>
              run[r].formattedAll = Enriched(run[r], run[r].i)
        /\ run[r].pc = "done" => run[r].result = <<ResultInListOrder(run[r])>>

\* C21 witness: the responses of a batch complete out of order: the second
\* fetch of the batch has answered while the first is still waiting for its
\* response.
C21_Witness ==
    /\ run["r1"].pc = "batch"
    /\ Len(run["r1"].tasks) >= 2
    /\ run["r1"].tasks[1].st = "get"
    /\ run["r1"].tasks[2].st = "ok"
    /\ run["r1"].formattedAll = <<>>

\* C23: the controller answers once the service call has ended and not
\* before: 500 exactly when the call threw, 404 exactly when it returned an
\* empty overdue list and no nextDue, and 200 for every other result.
C23_ControllerAnswer ==
    \A r \in Runs :
        /\ run[r].httpStatus = NoStatus <=> run[r].pc \notin {"done", "threw"}
        /\ run[r].httpStatus = 500 <=> run[r].pc = "threw"
        /\ run[r].httpStatus = 404 <=>
              /\ run[r].pc = "done"
              /\ Overdue(run[r]) = <<>>
              /\ NextDue(run[r]) = <<>>
        /\ run[r].httpStatus = 200 <=>
              /\ run[r].pc = "done"
              /\ (Overdue(run[r]) # <<>> \/ NextDue(run[r]) # <<>>)

\* C23 witness: the service returned no overdue invoice and a nextDue, and
\* the controller answered 200.
C23_Witness ==
    /\ run["r1"].pc = "done"
    /\ Overdue(run["r1"]) = <<>>
    /\ NextDue(run["r1"]) # <<>>
    /\ run["r1"].httpStatus = 200

----------------------------------------------------------------------------
(* Two payers looked up concurrently *)

\* The ids a record holds: in its list, in its batch in flight, in its
\* enriched set and in its result.
IdsHeld(rec) ==
    {rec.allBoletos[k].id : k \in DOMAIN rec.allBoletos}
        \cup {rec.tasks[k].id : k \in DOMAIN rec.tasks}
        \cup {rec.formattedAll[k].id : k \in DOMAIN rec.formattedAll}
        \cup (IF rec.result = <<>> THEN {}
              ELSE IdsOf(rec.result[1].boletosAtrasados)
                   \cup {rec.result[1].proximoBoletoAVencer[k].id :
                            k \in DOMAIN rec.result[1].proximoBoletoAVencer})

\* C22: with two lookups running concurrently, everything a lookup holds is
\* an invoice of its own payer; its list is the provider's list of that
\* payer, its enriched set the payloads of its own successful fetches, and
\* its result the classification of that set.  The two lookups share the
\* transport and the token only.
C22_PayersIsolated ==
    \A r \in Runs :
        /\ \A id \in IdsHeld(run[r]) : id[1] = Cpf(r)
        /\ run[r].allBoletos =
              ProviderPage(Cpf(r), 0, Len(run[r].allBoletos))
        /\ run[r].pc \in {"batch", "batchSleep"} =>
              run[r].formattedAll =
                 Enriched(run[r], Enrichable(run[r]))
        /\ run[r].pc = "done" => run[r].result = <<ResultInListOrder(run[r])>>

\* C22 witness: the two lookups overlapped and used the same transport; one
\* has returned an invoice of its payer while the other, still in its list
\* phase, has the summary of an invoice of the other payer.
C22_Witness ==
    /\ run["r1"].pc = "done"
    /\ run["r1"].httpStatus = 200
    /\ run["r2"].pc = "pageSleep"
    /\ run["r2"].allBoletos # <<>>
    /\ run["r1"].httpsAgent = run["r2"].httpsAgent
    /\ run["r1"].token = run["r2"].token

----------------------------------------------------------------------------
(* The payment fields of a detail payload: _extractPixFromInvoiceDetails    *)
(* and the amount fields of _formatInvoiceForFront, called on their own.    *)
(* A JS value is a record of its type and its content; a string is a        *)
(* sequence of characters.                                                  *)

Undefined == [type |-> "undefined", chars |-> <<>>, num |-> 0]
Null == [type |-> "null", chars |-> <<>>, num |-> 0]
Object == [type |-> "object", chars |-> <<>>, num |-> 0]
Str(cs) == [type |-> "string", chars |-> cs, num |-> 0]
Num(n) == [type |-> "number", chars |-> <<>>, num |-> n]

\* if (v): the values JS takes for true.
Truthy(v) ==
    CASE v.type = "string" -> v.chars # <<>>
      [] v.type = "number" -> v.num # 0
      [] v.type = "object" -> TRUE
      [] OTHER -> FALSE

\* a || b
Or(a, b) == IF Truthy(a) THEN a ELSE b

\* The accessors of tryPaths, in the order they are tried, each named by the
\* path it reads.
tryPaths ==
    <<"pix.key", "pix.chave", "pix_key", "pix.emv", "payment.pix.key",
      "payment.pix.chave", "payments[0].pix.key", "payments[0].pix.chave",
      "payment_data.pix_key", "payment.qrcode.pix_key",
      "payment.qrcode.pix.key", "payment.qrcode.payload",
      "payment_options.pix.emv", "payment_options.pix.payload">>

\* The paths of a detail payload the two helpers read.  A payload is the
\* function that gives the value found at each path (Undefined: nothing).
Paths ==
    {tryPaths[k] : k \in DOMAIN tryPaths}
        \cup {"payment.qrcode.brcode", "payment.qrcode.text",
              "total_amount", "services[0].amount", "amount"}

\* The characters String.prototype.trim removes that the inputs contain.
WhiteSpace == {" ", "\t", "\n", "\r"}

\* val.trim() !== ''
TrimNotEmpty(cs) == \E k \in DOMAIN cs : cs[k] \notin WhiteSpace

\* String.prototype.includes / a RegExp of literal characters tested on cs.
Contains(cs, sub) ==
    \E k \in 0..(Len(cs) - Len(sub)) : SubSeq(cs, k + 1, k + Len(sub)) = sub

\* The two alternatives of /br\.gov\.bcb\.pix|000201/.
GuiSignature ==
    <<"b", "r", ".", "g", "o", "v", ".", "b", "c", "b", ".", "p", "i", "x">>
EmvSignature == <<"0", "0", "0", "2", "0", "1">>

\* Mutant of HasSignature: the EMV alternative is matched on its first four
\* characters.
HasSignature_Prefix(cs) ==
    Contains(cs, GuiSignature) \/ Contains(cs, SubSeq(EmvSignature, 1, 4))

\* /br\.gov\.bcb\.pix|000201/.test(val)
HasSignature(cs) == Contains(cs, GuiSignature) \/ Contains(cs, EmvSignature)

\* Mutant of IsPayload: a candidate of exactly 100 characters is a payload.
IsPayload_From100(cs) == Len(cs) >= 100 \/ HasSignature(cs)

\* val.length > 100 || /br\.gov\.bcb\.pix|000201/.test(val)
IsPayload(cs) == Len(cs) > 100 \/ HasSignature(cs)

\* val && typeof val === 'string' && val.trim() !== ''
IsCandidate(v) == Truthy(v) /\ v.type = "string" /\ TrimNotEmpty(v.chars)

\* The character class [0-9a-fA-F\-].
HexOrHyphen ==
    {"0", "1", "2", "3", "4", "5", "6", "7", "8", "9",
     "a", "b", "c", "d", "e", "f", "A", "B", "C", "D", "E", "F", "-"}

\* Length of the longest run of [0-9a-fA-F\-] that starts at position from.
HexRun(cs, from) ==
    CHOOSE n \in 0..(Len(cs) - from + 1) :
        /\ \A j \in 0..(n - 1) : cs[from + j] \in HexOrHyphen
        /\ from + n > Len(cs) \/ cs[from + n] \notin HexOrHyphen

\* The positions at which one of the literal prefixes, followed by
\* ([0-9a-fA-F\-]{8,}), matches: <<start, first position of the group>>.
MatchesAt(cs, prefixes) ==
    {m \in (1..Len(cs)) \X (1..(Len(cs) + 1)) :
        \E pre \in prefixes :
            /\ m[2] = m[1] + Len(pre)
            /\ m[2] - 1 <= Len(cs)
            /\ SubSeq(cs, m[1], m[2] - 1) = pre
            /\ HexRun(cs, m[2]) >= 8}

\* String.prototype.match with such a pattern: the leftmost match, its group
\* taking the longest run; <<>> when nothing matches (null), <<m[1]>> otherwise.
MatchGroup(cs, prefixes) ==
    LET ms == MatchesAt(cs, prefixes)
    IN  IF ms = {} THEN <<>>
        ELSE LET m == CHOOSE x \in ms : \A y \in ms : x[1] <= y[1]
             IN  <<SubSeq(cs, m[2], m[2] + HexRun(cs, m[2]) - 1)>>

\* emv.match(/cobv\/([0-9a-fA-F\-]{8,})/)
\*     || emv.match(/cob\/v?\/([0-9a-fA-F\-]{8,})/)
\* The second pattern reads "cob/", an optional "v", "/", then the group.
MatchChargeId(cs) ==
    LET cobv == MatchGroup(cs, {<<"c", "o", "b", "v", "/">>})
    IN  IF cobv # <<>> THEN cobv
        ELSE MatchGroup(cs, {<<"c", "o", "b", "/", "v", "/">>,
                             <<"c", "o", "b", "/", "/">>})

\* _extractPixFromInvoiceDetails for a payload (details is an object): the
\* first accessor whose value is a non-blank string decides; with none, the
\* fallback field.
ExtractPixFromInvoiceDetails(details) ==
    LET hits == {k \in DOMAIN tryPaths : IsCandidate(details[tryPaths[k]])}
    IN  IF hits # {}
        THEN LET val == details[tryPaths[CHOOSE k \in hits :
                                            \A j \in hits : k <= j]]
             IN  IF IsPayload(val.chars)
                 THEN [pix_key |-> Null, pix_payload |-> val]
                 ELSE [pix_key |-> val, pix_payload |-> Null]
        ELSE LET emv == Or(Or(details["pix.emv"],
                              details["payment.qrcode.brcode"]),
                           details["payment.qrcode.text"])
             IN  IF Truthy(emv) /\ emv.type = "string"
                 THEN LET m == MatchChargeId(emv.chars)
                      IN  IF m # <<>>
                          THEN [pix_key |-> Str(m[1]), pix_payload |-> emv]
                          ELSE [pix_key |-> Null, pix_payload |-> emv]
                 ELSE [pix_key |-> Null, pix_payload |-> Null]

\* Number.prototype.toLocaleString('pt-BR', {style: 'currency', currency:
\* 'BRL'}) of cents / 100, for an integer number of cents: sign, "R$", a
\* no-break space, the integer part in groups of three separated by ".",
\* "," and two decimals.
Digit(d) == <<"0", "1", "2", "3", "4", "5", "6", "7", "8", "9">>[d + 1]

RECURSIVE GroupedDigits(_)
GroupedDigits(n) ==
    IF n < 10 THEN <<Digit(n)>>
    ELSE IF n < 100 THEN <<Digit(n \div 10), Digit(n % 10)>>
    ELSE IF n < 1000
         THEN <<Digit(n \div 100), Digit((n \div 10) % 10), Digit(n % 10)>>
    ELSE GroupedDigits(n \div 1000)
            \o <<".", Digit((n \div 100) % 10), Digit((n \div 10) % 10),
                 Digit(n % 10)>>

ToLocaleStringBRL(cents) ==
    LET a == IF cents < 0 THEN -cents ELSE cents
    IN  (IF cents < 0 THEN <<"-">> ELSE <<>>)
            \o <<"R", "$", "nbsp">> \o GroupedDigits(a \div 100)
            \o <<",", Digit((a \div 10) % 10), Digit(a % 10)>>

\* let amountCents: total_amount, else services[0].amount, else amount, the
\* first that is a number; null with none.
AmountCents(details) ==
    IF details["total_amount"].type = "number" THEN details["total_amount"]
    ELSE IF details["services[0].amount"].type = "number"
         THEN details["services[0].amount"]
    ELSE IF details["amount"].type = "number" THEN details["amount"]
    ELSE Null

\* _formatInvoiceForFront: the payment fields of the record it returns.
FormatPaymentFields(details) ==
    LET amountCents == AmountCents(details)
        amountFormatted ==
            IF amountCents # Null
            THEN Str(ToLocaleStringBRL(amountCents.num))
            ELSE Null
        pix == ExtractPixFromInvoiceDetails(details)
    IN  [amount_cents |-> amountCents, amount |-> amountFormatted,
         pix_key |-> pix.pix_key, pix_payload |-> pix.pix_payload]

----------------------------------------------------------------------------
(* The detail payloads the two helpers are called with *)

Rep(c, n) == [k \in 1..n |-> c]

NoDetails == [f \in Paths |-> Undefined]

\* Six-character alphanumeric strings: every position holds the character
\* of the EMV signature or the letter a.
SixChars ==
    {[k \in 1..6 |-> IF k \in S THEN EmvSignature[k] ELSE "a"] :
        S \in SUBSET (1..6)}

\* Candidate strings: short ones, strings of 99, 100, 101 and 140 characters,
\* strings with a signature, and near misses of the signature.
Candidates ==
    SixChars
        \cup {Rep("x", 99), Rep("x", 100), Rep("x", 101), Rep("x", 140)}
        \cup {GuiSignature,
              <<"x">> \o GuiSignature \o <<"y">>,
              Rep("x", 3) \o EmvSignature \o Rep("y", 3),
              Rep("x", 100) \o EmvSignature,
              <<"B", "R", ".", "G", "O", "V", ".", "B", "C", "B", ".",
                "P", "I", "X">>,
              <<"b", "r", "-", "g", "o", "v", "-", "b", "c", "b", "-",
                "p", "i", "x">>,
              <<" ", "k", "e", "y", " ">>}

\* Values an accessor finds that are not candidates.
Skipped == {Str(<<>>), Str(<<" ", "\t">>), Object, Null, Num(7)}

\* Strings of the fallback field.
FallbackStrings ==
    LET id == <<"0", "1", "2", "3", "a", "b", "c", "d">>
        url == <<"p", "i", "x", "/">>
    IN  {url \o <<"c", "o", "b", "v", "/">> \o id,
         url \o <<"c", "o", "b", "/">> \o id,
         url \o <<"c", "o", "b", "/", "/">> \o id,
         url \o <<"c", "o", "b", "/", "v", "/">> \o id,
         url \o <<"c", "o", "b", "v", "/">> \o SubSeq(id, 1, 7),
         url \o <<"c", "o", "b", "/">> \o SubSeq(id, 1, 7) \o <<"g">>,
         url \o <<"c", "o", "b", "v", "/">> \o id \o <<"-", "E", "F", "?">>,
         url \o <<"c", "o", "b", "v", "/", "x">> \o url
             \o <<"c", "o", "b", "v", "/">> \o id,
         <<"h", "e", "l", "l", "o">>,
         <<" ">>}

FallbackValues == {Undefined, Object} \cup {Str(cs) : cs \in FallbackStrings}

\* Values of an amount field.
AmountValues ==
    {Undefined, Str(<<"1", "0", "5", "0">>), Num(-100), Num(0), Num(5),
     Num(1050), Num(123456789)}

DetailInputs ==
    {[NoDetails EXCEPT ![tryPaths[p]] = Str(cs)] :
        p \in DOMAIN tryPaths, cs \in Candidates}
    \cup
    {[NoDetails EXCEPT ![tryPaths[pq[1]]] = v, ![tryPaths[pq[2]]] = Str(w)] :
        pq \in {x \in (DOMAIN tryPaths) \X (DOMAIN tryPaths) : x[1] < x[2]},
        v \in Skipped \cup {Str(Rep("k", 6))},
        w \in {<<"a", "b", "c", "1", "2", "3">>, GuiSignature}}
    \cup
    {[NoDetails EXCEPT !["pix.emv"] = e,
                       !["payment.qrcode.brcode"] = b,
                       !["payment.qrcode.text"] = t] :
        e \in {Undefined, Str(<<>>), Str(<<" ">>), Object},
        b \in FallbackValues, t \in FallbackValues}
    \cup
    {[NoDetails EXCEPT !["total_amount"] = a,
                       !["services[0].amount"] = b,
                       !["amount"] = c] :
        a \in AmountValues, b \in AmountValues, c \in AmountValues}

\* The service as constructed, no lookup made.
ServiceIdle ==
    /\ now = 0
    /\ httpsAgent = NoAgent
    /\ agentsCreated = 0
    /\ token = NoToken
    /\ tokenExpiry = NoExpiry
    /\ tokenPosts = 0
    /\ tokenResps = 0
    /\ run = [r \in Runs |-> InitRun]
    /\ lookups = 0
    /\ tz = 0

InitFormat ==
    /\ ServiceIdle
    /\ call \in {[op |-> "args", details |-> d] : d \in DetailInputs}

\* this._extractPixFromInvoiceDetails(details)
CallExtractPix ==
    /\ call.op = "args"
    /\ call' = [op |-> "extractPix", details |-> call.details,
                result |-> ExtractPixFromInvoiceDetails(call.details)]
    /\ UNCHANGED <<now, service, tokenPosts, tokenResps, run, lookups, tz>>

\* this._formatInvoiceForFront(details)
CallFormatInvoice ==
    /\ call.op = "args"
    /\ call' = [op |-> "format", details |-> call.details,
                result |-> FormatPaymentFields(call.details)]
    /\ UNCHANGED <<now, service, tokenPosts, tokenResps, run, lookups, tz>>

NextFormat == CallExtractPix \/ CallFormatInvoice

SpecFormat == InitFormat /\ [][NextFormat]_vars

----------------------------------------------------------------------------
(* Pix key or payload, and the amount *)

\* The accessors, in order, whose value is a string with a character that is
\* not white space.
NonEmptyAt(details) ==
    {k \in DOMAIN tryPaths :
        /\ details[tryPaths[k]].type = "string"
        /\ \E j \in DOMAIN details[tryPaths[k]].chars :
              details[tryPaths[k]].chars[j] \notin WhiteSpace}

\* The first non-empty candidate string of a payload that has one.
FirstCandidate(details) ==
    details[tryPaths[CHOOSE k \in NonEmptyAt(details) :
                        \A j \in NonEmptyAt(details) : k <= j]].chars

\* _extractPixFromInvoiceDetails has returned for a payload with a candidate.
ExtractedCandidate ==
    call.op = "extractPix" /\ NonEmptyAt(call.details) # {}

\* The letters and digits.
AlphaNumeric ==
    {LowerCase[k] : k \in DOMAIN LowerCase}
        \cup {UpperCase[k] : k \in DOMAIN UpperCase}
        \cup {Digit(d) : d \in 0..9}

\* A six-character alphanumeric string.
IsSixAlphaNumeric(cs) ==
    Len(cs) = 6 /\ \A k \in DOMAIN cs : cs[k] \in AlphaNumeric

\* C24: the first non-empty candidate is returned as pix_payload, with
\* pix_key absent, when it is longer than 100 characters or contains
\* 'br.gov.bcb.pix' or '000201', and as pix_key, with pix_payload absent,
\* otherwise; a candidate of 140 characters is a payload, and so is one that
\* contains 'br.gov.bcb.pix', whatever its length.
C24_KeyOrPayload ==
    ExtractedCandidate =>
        LET val == FirstCandidate(call.details)
            asPayload == [pix_key |-> Null, pix_payload |-> Str(val)]
            asKey == [pix_key |-> Str(val), pix_payload |-> Null]
        IN  /\ IF \/ Len(val) > 100
                  \/ Contains(val, GuiSignature)
                  \/ Contains(val, EmvSignature)
               THEN call.result = asPayload
               ELSE call.result = asKey
            /\ Len(val) = 140 => call.result = asPayload
            /\ Contains(val, GuiSignature) => call.result = asPayload

\* C24 witness: a candidate of 140 characters without a signature was
\* returned as payload, with no key.
C24_Witness ==
    /\ ExtractedCandidate
    /\ Len(FirstCandidate(call.details)) = 140
    /\ ~HasSignature(FirstCandidate(call.details))
    /\ call.result.pix_payload = Str(FirstCandidate(call.details))
    /\ call.result.pix_key = Null

\* C25 (as stated): every six-character alphanumeric candidate is returned
\* as pix_key, never as pix_payload.
C25_Original ==
    (ExtractedCandidate /\ IsSixAlphaNumeric(FirstCandidate(call.details))) =>
        /\ call.result.pix_key = Str(FirstCandidate(call.details))
        /\ call.result.pix_payload = Null

\* C25 (amended): every six-character alphanumeric candidate other than
\* '000201' is returned as pix_key, never as pix_payload; '000201', which is
\* itself the EMV signature, is returned as pix_payload.
C25_SixCharKey ==
    (ExtractedCandidate /\ IsSixAlphaNumeric(FirstCandidate(call.details))) =>
        LET val == FirstCandidate(call.details)
        IN  IF val = EmvSignature
            THEN call.result = [pix_key |-> Null, pix_payload |-> Str(val)]
            ELSE call.result = [pix_key |-> Str(val), pix_payload |-> Null]

\* C25 witness: the six-character candidate 00020a, one character away from
\* the signature, was returned as pix_key.
C25_Witness ==
    /\ ExtractedCandidate
    /\ FirstCandidate(call.details) = <<"0", "0", "0", "2", "0", "a">>
    /\ call.result.pix_key = Str(<<"0", "0", "0", "2", "0", "a">>)
    /\ call.result.pix_payload = Null

\* The fallback field of a payload: pix.emv, else payment.qrcode.brcode, else
\* payment.qrcode.text.
FallbackField(details) ==
    IF Truthy(details["pix.emv"]) THEN details["pix.emv"]
    ELSE IF Truthy(details["payment.qrcode.brcode"])
         THEN details["payment.qrcode.brcode"]
    ELSE details["payment.qrcode.text"]

\* The charge identifier embedded in a string: the token of at least 8
\* characters of [0-9a-fA-F-] that immediately follows 'cob/' or 'cobv/'.
EmbeddedChargeId(cs) ==
    MatchGroup(cs, {<<"c", "o", "b", "/">>, <<"c", "o", "b", "v", "/">>})

\* C26 (as stated): with no non-empty candidate and a fallback field that
\* holds a string, that string is returned as pix_payload, and pix_key is the
\* embedded charge identifier when the string contains 'cob/' or 'cobv/'
\* immediately followed by at least 8 characters of [0-9a-fA-F-], and absent
\* otherwise.
C26_Original ==
    (/\ call.op = "extractPix"
     /\ NonEmptyAt(call.details) = {}
     /\ FallbackField(call.details).type = "string"
     /\ FallbackField(call.details).chars # <<>>) =>
        LET emv == FallbackField(call.details)
        IN  /\ call.result.pix_payload = emv
            /\ call.result.pix_key =
                  IF EmbeddedChargeId(emv.chars) # <<>>
                  THEN Str(EmbeddedChargeId(emv.chars)[1])
                  ELSE Null

\* C27 (as stated): in every record _formatInvoiceForFront returns,
\* amount_cents is absent or a non-negative integer, and amount is present
\* exactly when amount_cents is.
C27_Original ==
    call.op = "format" =>
        /\ \/ call.result.amount_cents = Null
           \/ /\ call.result.amount_cents.type = "number"
              /\ call.result.amount_cents.num >= 0
        /\ call.result.amount = Null <=> call.result.amount_cents = Null

----------------------------------------------------------------------------
(* The certificate or the key: the constructor's check and                  *)
(* _loadCertOrKeyContent, in the service (part_000), in its earlier version *)
(* (servicoCora.js) and in the script's loadPem (part_001).  A Buffer is    *)
(* the sequence of its bytes.                                               *)

\* The printable ASCII characters, from the space (32) to the tilde (126);
\* the grave accent (96) is written by its name.
AsciiPrintable ==
    <<" ", "!", "\"", "#", "$", "%", "&", "'", "(", ")", "*", "+",
      ",", "-", ".", "/", "0", "1", "2", "3", "4", "5", "6", "7",
      "8", "9", ":", ";", "<", "=", ">", "?", "@", "A", "B", "C",
      "D", "E", "F", "G", "H", "I", "J", "K", "L", "M", "N", "O",
      "P", "Q", "R", "S", "T", "U", "V", "W", "X", "Y", "Z", "[",
      "\\", "]", "^", "_", "grave", "a", "b", "c", "d", "e", "f", "g",
      "h", "i", "j", "k", "l", "m", "n", "o", "p", "q", "r", "s",
      "t", "u", "v", "w", "x", "y", "z", "{", "|", "}", "~">>

\* The byte of a character in UTF-8 (the characters here are ASCII).
CharCode(c) ==
    CASE c = "\t" -> 9
      [] c = "\n" -> 10
      [] c = "\r" -> 13
      [] OTHER -> 31 + (CHOOSE k \in DOMAIN AsciiPrintable : AsciiPrintable[k] = c)

\* Buffer.from(val, 'utf8')
Utf8(cs) == [k \in DOMAIN cs |-> CharCode(cs[k])]

\* The base64 alphabet, in the order of the values 0..63.
Base64Alphabet ==
    <<"A", "B", "C", "D", "E", "F", "G", "H", "I", "J", "K", "L", "M",
      "N", "O", "P", "Q", "R", "S", "T", "U", "V", "W", "X", "Y", "Z",
      "a", "b", "c", "d", "e", "f", "g", "h", "i", "j", "k", "l", "m",
      "n", "o", "p", "q", "r", "s", "t", "u", "v", "w", "x", "y", "z",
      "0", "1", "2", "3", "4", "5", "6", "7", "8", "9", "+", "/">>

Sextet(c) == (CHOOSE k \in DOMAIN Base64Alphabet : Base64Alphabet[k] = c) - 1

\* Buffer.from(candidate, 'base64') for a string of the alphabet and "=":
\* the data ends at the first "="; every 4 characters give 3 bytes, and a
\* rest of 2 or 3 characters gives 1 or 2 bytes.
Base64Decode(cs) ==
    LET pads == {k \in DOMAIN cs : cs[k] = "="}
        n == IF pads = {} THEN Len(cs)
             ELSE (CHOOSE k \in pads : \A j \in pads : k <= j) - 1
        six == [k \in 1..n |-> Sextet(cs[k])]
        byte(j) ==
            LET q == (8 * j) \div 6
                r == (8 * j) % 6
            IN  CASE r = 0 -> six[q + 1] * 4 + (six[q + 2] \div 16)
                  [] r = 2 -> (six[q + 1] % 16) * 16 + (six[q + 2] \div 4)
                  [] OTHER -> (six[q + 1] % 4) * 64 + six[q + 2]
    IN  [k \in 1..((6 * n) \div 8) |-> byte(k - 1)]

\* String.prototype.trim
RECURSIVE TrimStart(_)
TrimStart(cs) ==
    IF cs # <<>> /\ Head(cs) \in WhiteSpace THEN TrimStart(Tail(cs)) ELSE cs

RECURSIVE TrimEnd(_)
TrimEnd(cs) ==
    IF cs # <<>> /\ cs[Len(cs)] \in WhiteSpace
    THEN TrimEnd(SubSeq(cs, 1, Len(cs) - 1))
    ELSE cs

Trim(cs) == TrimEnd(TrimStart(cs))

\* (val.startsWith('"') && val.endsWith('"'))
\*     || (val.startsWith("'") && val.endsWith("'")) ? val.slice(1, -1) : val
StripQuotes(cs) ==
    IF /\ cs # <<>>
       /\ \/ Head(cs) = "\"" /\ cs[Len(cs)] = "\""
          \/ Head(cs) = "'" /\ cs[Len(cs)] = "'"
    THEN SubSeq(cs, 2, Len(cs) - 1)
    ELSE cs

\* val.replace(/\\n/g, '\n'): every backslash followed by n becomes a line
\* feed.
RECURSIVE UnescapeNewlines(_)
UnescapeNewlines(cs) ==
    IF cs = <<>> THEN <<>>
    ELSE IF Len(cs) >= 2 /\ cs[1] = "\\" /\ cs[2] = "n"
         THEN <<"\n">> \o UnescapeNewlines(SubSeq(cs, 3, Len(cs)))
    ELSE <<Head(cs)>> \o UnescapeNewlines(Tail(cs))

\* val.replace(/\s+/g, '')
RECURSIVE RemoveWhiteSpace(_)
RemoveWhiteSpace(cs) ==
    IF cs = <<>> THEN <<>>
    ELSE IF Head(cs) \in WhiteSpace THEN RemoveWhiteSpace(Tail(cs))
    ELSE <<Head(cs)>> \o RemoveWhiteSpace(Tail(cs))

\* /^[A-Za-z0-9+/=]+$/.test(maybeBase64)
base64Regex(cs) ==
    /\ cs # <<>>
    /\ \A k \in DOMAIN cs :
          cs[k] = "=" \/ \E j \in DOMAIN Base64Alphabet : Base64Alphabet[j] = cs[k]

PemHeader == <<"-", "-", "-", "-", "-", "B", "E", "G", "I", "N">>

\* The normalisation of an environment value (part_000:68-108, and the same
\* statements in loadPem, part_001:51-71): trimmed, outer quotes removed,
\* escaped line feeds made real; the text itself when it has a PEM header,
\* else its base64 decoding when it is base64, else the text itself.
NormalizeEnv(envVarContent) ==
    LET val == UnescapeNewlines(StripQuotes(Trim(envVarContent)))
        maybeBase64 == RemoveWhiteSpace(val)
    IN  IF Contains(val, PemHeader) THEN Utf8(val)
        ELSE IF base64Regex(maybeBase64) THEN Base64Decode(maybeBase64)
        ELSE Utf8(val)

\* What a call returned: content is <<the Buffer>>, or <<>> when it threw;
\* warned tells whether the file-read warning was logged.
Loaded(bytes, source, warned) ==
    [content |-> <<bytes>>, source |-> source, warned |-> warned]
LoadThrew(warned) == [content |-> <<>>, source |-> "none", warned |-> warned]

\* _loadCertOrKeyContent of part_000 for a configuration cfg: certFolderPath
\* set or not, file = <<bytes>> when fs.readFile succeeds and <<>> when it
\* rejects, env the environment value.
LoadCertOrKeyContent(cfg) ==
    IF cfg.certFolderPath /\ cfg.file # <<>>
    THEN Loaded(cfg.file[1], "file", FALSE)
    ELSE IF Truthy(cfg.env)
         THEN Loaded(NormalizeEnv(cfg.env.chars), "env", cfg.certFolderPath)
    ELSE LoadThrew(cfg.certFolderPath)

\* _loadCertOrKeyContent of servicoCora.js: the environment value is taken
\* as it is (Buffer.from(envVarContent, 'utf-8'), line 70).
ServicoCora_LoadCertOrKeyContent(cfg) ==
    IF cfg.certFolderPath /\ cfg.file # <<>>
    THEN Loaded(cfg.file[1], "file", FALSE)
    ELSE IF Truthy(cfg.env)
         THEN Loaded(Utf8(cfg.env.chars), "env", cfg.certFolderPath)
    ELSE LoadThrew(cfg.certFolderPath)

\* loadPem of part_001.
loadPem(cfg) ==
    IF cfg.certFolderPath /\ cfg.file # <<>>
    THEN Loaded(cfg.file[1], "file", FALSE)
    ELSE IF ~Truthy(cfg.env) THEN LoadThrew(cfg.certFolderPath)
    ELSE Loaded(NormalizeEnv(cfg.env.chars), "env", cfg.certFolderPath)

\* The constructor's test of one material kind (the same in both versions of
\* the service): it throws when neither the environment value nor the folder
\* is set.  The script of part_001 has no such test.
ConstructorThrows(cfg) ==
    /\ cfg.version \in {"part_000", "servicoCora.js"}
    /\ ~Truthy(cfg.env)
    /\ ~cfg.certFolderPath

----------------------------------------------------------------------------
(* The configurations the loader is called with *)

\* Two PEM materials: a PEM text, and the same text ended by a line feed as
\* a PEM file is.
PemText ==
    <<"-", "-", "-", "-", "-", "B", "E", "G", "I", "N", " ", "K",
      "-", "-", "-", "-", "-", "\n", "T", "Q", "=", "=", "\n", "-",
      "-", "-", "-", "-", "E", "N", "D", " ", "K", "-", "-", "-",
      "-", "-">>
PemMaterials == {PemText, PemText \o <<"\n">>}

\* base64 of a sequence of bytes, as `base64` writes it (padding included).
Base64Encode(bytes) ==
    LET n == Len(bytes)
        at(k) == IF k <= n THEN bytes[k] ELSE 0
        sextet(i) ==
            LET q == (6 * i) \div 8
                r == (6 * i) % 8
            IN  CASE r = 0 -> at(q + 1) \div 4
                  [] r = 6 -> (at(q + 1) % 4) * 16 + (at(q + 2) \div 16)
                  [] r = 4 -> (at(q + 1) % 16) * 4 + (at(q + 2) \div 64)
                  [] OTHER -> at(q + 1) % 64
        m == (8 * n + 5) \div 6
    IN  [k \in 1..(4 * ((n + 2) \div 3)) |->
            IF k <= m THEN Base64Alphabet[sextet(k - 1) + 1] ELSE "="]

RECURSIVE EscapeNewlines(_)
EscapeNewlines(cs) ==
    IF cs = <<>> THEN <<>>
    ELSE IF Head(cs) = "\n" THEN <<"\\", "n">> \o EscapeNewlines(Tail(cs))
    ELSE <<Head(cs)>> \o EscapeNewlines(Tail(cs))

\* The ways a PEM material is put in the environment.
EnvChannels == {"literal", "quoted", "escaped", "base64"}

EnvOf(channel, material) ==
    CASE channel = "literal" -> material
      [] channel = "quoted" -> <<"\"">> \o material \o <<"\"">>
      [] channel = "escaped" -> EscapeNewlines(material)
      [] OTHER -> Base64Encode(Utf8(material))

\* Environment values that carry no PEM material.
OtherEnv ==
    {Undefined, Str(<<>>), Str(<<"\"", "\"">>),
     Str(<<"h", "i", " ", "!">>), Str(<<"a", "G", "k", "=">>),
     Str(<<" ", "a", "G", "\n", "k", "=", " ">>)}

Versions == {"part_000", "servicoCora.js", "part_001"}

CredInputs ==
    {[version |-> v, certFolderPath |-> TRUE, file |-> <<Utf8(m)>>, env |-> e,
      channel |-> "file", material |-> m] :
        v \in Versions, m \in PemMaterials,
        e \in {Undefined, Str(EnvOf("literal", PemText))}}
    \cup
    {[version |-> v, certFolderPath |-> f, file |-> <<>>,
      env |-> Str(EnvOf(ch, m)), channel |-> ch, material |-> m] :
        v \in Versions, f \in BOOLEAN, ch \in EnvChannels, m \in PemMaterials}
    \cup
    {[version |-> v, certFolderPath |-> f, file |-> fl, env |-> e,
      channel |-> "none", material |-> <<>>] :
        v \in Versions, f \in BOOLEAN, e \in OtherEnv,
        fl \in {<<>>, <<<<>>>>, <<Utf8(<<"h", "i">>)>>}}

InitCred ==
    /\ ServiceIdle
    /\ call \in {[op |-> "config", cfg |-> c] : c \in CredInputs}

\* new CoraService(): the configuration is read and tested.
Construct ==
    /\ call.op = "config"
    /\ call' = [call EXCEPT !.op = IF ConstructorThrows(call.cfg)
                                   THEN "constructorThrew" ELSE "constructed"]
    /\ UNCHANGED <<now, service, tokenPosts, tokenResps, run, lookups, tz>>

\* createHttpsAgent calls _loadCertOrKeyContent (createAgent calls loadPem).
LoadCertOrKey ==
    /\ call.op = "constructed"
    /\ call' = [op |-> "loaded", cfg |-> call.cfg,
                result |->
                    CASE call.cfg.version = "part_000" ->
                            LoadCertOrKeyContent(call.cfg)
                      [] call.cfg.version = "servicoCora.js" ->
                            ServicoCora_LoadCertOrKeyContent(call.cfg)
                      [] OTHER -> loadPem(call.cfg)]
    /\ UNCHANGED <<now, service, tokenPosts, tokenResps, run, lookups, tz>>

NextCred == Construct \/ LoadCertOrKey

SpecCred == InitCred /\ [][NextCred]_vars

----------------------------------------------------------------------------
(* Where the certificate and the key come from *)

\* The service (either version) has loaded, or failed to load, a material.
ServiceLoaded ==
    call.op = "loaded" /\ call.cfg.version \in {"part_000", "servicoCora.js"}

\* C28 (as stated): with a folder configured and a successful read the
\* file's bytes are returned and the environment value is not used; with no
\* folder, or a failed read (a warning), the normalized environment value is
\* returned; with neither source the call fails.
C28_Original ==
    ServiceLoaded =>
        IF call.cfg.certFolderPath /\ call.cfg.file # <<>>
        THEN /\ call.result.content = call.cfg.file
             /\ call.result.source = "file"
        ELSE /\ call.result.warned = call.cfg.certFolderPath
             /\ IF Truthy(call.cfg.env)
                THEN call.result.content = <<NormalizeEnv(call.cfg.env.chars)>>
                ELSE call.result.content = <<>>

\* C29 (as stated): when the constructor has succeeded, no later call of
\* _loadCertOrKeyContent fails for want of content.
C29_Original == ServiceLoaded => call.result.content # <<>>

\* C30 (as stated): a PEM material supplied as a file, as a PEM literal, as a
\* quoted literal, with escaped line feeds or as base64 yields the same
\* bytes, those of the material.
C30_Original ==
    (call.op = "loaded" /\ call.cfg.channel # "none") =>
        call.result.content = <<Utf8(call.cfg.material)>>

----------------------------------------------------------------------------
(* The page loop against a constant total *)

\* The total the provider reports on every page of the lookup.
ReportedTotal(rec) == rec.lastResp[1].total

\* The page loop has ended after a non-empty page: no page was empty and no
\* list request failed.
PagesDelivered(rec) ==
    /\ rec.pc \notin {"idle", "agent", "token", "page", "pageSleep", "threw"}
    /\ rec.lastResp[1].n >= 1

\* Every page but the last was full.
FullPagesButLast(rec) ==
    Len(rec.allBoletos) - rec.lastResp[1].n = perPage * (Len(rec.pageReqs) - 1)

\* C31: with the same total T >= 1 reported on every page, a lookup never
\* sends more than T list requests; when the loop has ended after non-empty
\* pages only, the list holds at least T summaries, the provider's in page
\* order, and exactly ceil(T / perPage) requests were sent if every page but
\* the last was full.
C31_PageLoopBounded ==
    \A r \in Runs :
        /\ run[r].lastResp # <<>> =>
              Len(run[r].pageReqs) <= ReportedTotal(run[r])
        /\ PagesDelivered(run[r]) =>
              /\ Len(run[r].allBoletos) >= ReportedTotal(run[r])
              /\ run[r].allBoletos =
                    ProviderPage(Cpf(r), 0, Len(run[r].allBoletos))
              /\ FullPagesButLast(run[r]) =>
                    Len(run[r].pageReqs) =
                       (ReportedTotal(run[r]) + perPage - 1) \div perPage

\* C31 witness: a total of MaxTotal delivered one summary a page: the loop
\* ended after MaxTotal requests, the most the claim allows.
C31_Witness ==
    /\ PagesDelivered(run["r1"])
    /\ ReportedTotal(run["r1"]) = MaxTotal
    /\ Len(run["r1"].pageReqs) = MaxTotal
    /\ Len(run["r1"].allBoletos) = MaxTotal

----------------------------------------------------------------------------
(* Invoices without a due date *)

\* The positions of the enriched set that hold an OPEN/LATE invoice without a
\* due date.
Undated(rec) ==
    {k \in DOMAIN rec.formattedAll :
        OpenOrLate(rec.formattedAll[k]) /\ rec.formattedAll[k].due_date = NoDueDate}

\* The positions that hold an upcoming invoice: OPEN/LATE and not classified
\* as overdue.
Upcoming(rec) ==
    {k \in DOMAIN rec.formattedAll :
        /\ OpenOrLate(rec.formattedAll[k])
        /\ rec.formattedAll[k].id \notin IdsOf(Overdue(rec))}

\* C32: an OPEN/LATE invoice without a due date is in overdue, before every
\* overdue invoice that has a due date, and when there is no upcoming invoice
\* nextDue is the first overdue invoice, one without a due date.
C32_NoDueDateIsEpoch ==
    \A r \in Runs :
        (run[r].pc = "done" /\ Undated(run[r]) # {}) =>
            /\ \A k \in Undated(run[r]) :
                  run[r].formattedAll[k].id \in IdsOf(Overdue(run[r]))
            /\ \A j, k \in DOMAIN Overdue(run[r]) :
                  (/\ Overdue(run[r])[j].due_date = NoDueDate
                   /\ Overdue(run[r])[k].due_date # NoDueDate) => j < k
            /\ Overdue(run[r])[1].due_date = NoDueDate
            /\ Upcoming(run[r]) = {} => NextDue(run[r]) = <<Overdue(run[r])[1]>>

\* C32 witness: an OPEN invoice due day 0 and then a LATE invoice without a
\* due date, classified on day 1: the undated one is first in overdue and is
\* nextDue.
C32_Witness ==
    /\ run["r1"].pc = "done"
    /\ Today(run["r1"]) = 1
    /\ Len(run["r1"].formattedAll) = 2
    /\ run["r1"].formattedAll[1].status = OPEN
    /\ run["r1"].formattedAll[1].due_date = 0
    /\ run["r1"].formattedAll[2].status = LATE
    /\ run["r1"].formattedAll[2].due_date = NoDueDate
    /\ Overdue(run["r1"]) =
          <<run["r1"].formattedAll[2], run["r1"].formattedAll[1]>>
    /\ NextDue(run["r1"]) = <<run["r1"].formattedAll[2]>>

----------------------------------------------------------------------------
(* The list of the 200 response *)

\* The positions of a list that carry a label.
Labelled(list, label) == {k \in DOMAIN list : list[k].status = label}

\* C33: in a 200 response the list holds every overdue invoice labelled
\* ATRASADO, and nextDue labelled A VENCER exactly when its id is not among
\* the overdue ones, and nothing else; the ATRASADO entries come before the
\* A VENCER entry and each group is ascending by due date; a nextDue that is
\* the first overdue invoice appears once, as ATRASADO.
C33_ResponseList ==
    \A r \in Runs :
        (run[r].pc = "done" /\ run[r].httpStatus = 200) =>
            LET list == run[r].boletos[1]
                od == Overdue(run[r])
                nd == NextDue(run[r])
                extra == nd # <<>> /\ nd[1].id \notin IdsOf(od)
            IN  /\ Len(list) = Len(od) + (IF extra THEN 1 ELSE 0)
                /\ \A k \in DOMAIN od :
                      \E j \in DOMAIN list :
                          list[j] = [od[k] EXCEPT !.status = ATRASADO]
                /\ Cardinality(Labelled(list, ATRASADO)) = Len(od)
                /\ extra =>
                      list[Len(list)] = [nd[1] EXCEPT !.status = A_VENCER]
                /\ \A j, k \in DOMAIN list :
                      j < k =>
                         /\ list[k].status = ATRASADO => list[j].status = ATRASADO
                         /\ list[j].status = list[k].status =>
                               list[j].due_date <= list[k].due_date
                /\ (nd # <<>> /\ nd[1].id \in IdsOf(od)) =>
                      /\ Labelled(list, A_VENCER) = {}
                      /\ Cardinality({k \in DOMAIN list : list[k].id = nd[1].id}) = 1

\* C33 witness: two overdue invoices and no upcoming one: nextDue is the
\* first overdue invoice and the list holds two entries, both ATRASADO.
C33_Witness ==
    /\ run["r1"].pc = "done"
    /\ run["r1"].httpStatus = 200
    /\ Len(Overdue(run["r1"])) = 2
    /\ NextDue(run["r1"]) = <<Overdue(run["r1"])[1]>>
    /\ Len(run["r1"].boletos[1]) = 2
    /\ Labelled(run["r1"].boletos[1], ATRASADO) = {1, 2}
    /\ run["r1"].boletos[1][1].id = NextDue(run["r1"])[1].id

====
